---------------------------- MODULE Spec2Model ----------------------------
(***************************************************************************)
(* A model of the configuration-driven k6 load-testing framework:          *)
(* TestFactory.createTest, BaseLoadTest (constructor, getOptions, init,    *)
(* run and its hooks), CSVDataLoader.load and RequestValidator.validate,   *)
(* driven in the order of the framework entry scripts                      *)
(*     createTest -> getOptions -> init -> run() run() ...                 *)
(*                                                                         *)
(* JavaScript values are tagged records.  A JavaScript string is a         *)
(* sequence of atoms: an atom is one character that the code inspects      *)
(* ("/", ".", " ", "{", the double quote, ...) or a run of characters it   *)
(* never looks into ("https://x.io", "login").                             *)
(***************************************************************************)
EXTENDS Integers, Sequences, FiniteSets, TLC

(***************************************************************************)
(* Bounds of the model.                                                    *)
(***************************************************************************)
\* the longest CSV file read by init(), in data rows
MaxRows == 2
\* the number of iterations of run() that the scheduler starts
MaxIter == 2

(***************************************************************************)
(* JavaScript values.                                                      *)
(***************************************************************************)
Undef == [t |-> "undefined"]
Null == [t |-> "null"]
Str(s) == [t |-> "string", s |-> s]
Num(n) == [t |-> "number", n |-> n]
Bool(b) == [t |-> "boolean", b |-> b]
\* an object literal: its own keys in insertion order, and their values
Obj(keys, f) == [t |-> "object", keys |-> keys, f |-> f]
EmptyObj == Obj(<<>>, <<>>)
Arr(a) == [t |-> "array", a |-> a]
\* a function object, such as Object.prototype.constructor
Fn == [t |-> "function"]

\* a one-atom string, the usual shape of a key or a name
S(a) == Str(<<a>>)

\* the properties every object inherits from Object.prototype (those the
\* inputs of the model can name)
ObjectProtoKeys == {<<"constructor">>}

\* ToBoolean: the truthiness that `!x`, `x || y` and `if (x)` test
Truthy(v) ==
  CASE v.t = "undefined" -> FALSE
    [] v.t = "null" -> FALSE
    [] v.t = "string" -> v.s # <<>>
    [] v.t = "number" -> v.n # 0
    [] v.t = "boolean" -> v.b
    [] OTHER -> TRUE

\* v is null or undefined: reading a property of it raises a TypeError
Nullish(v) == v.t \in {"undefined", "null"}

\* the atoms of more than one character that the JSON texts of the model
\* hold as string values, with their number of characters
LongAtoms == ("abc" :> 3) @@ ("xyz" :> 3)

\* s.length
RECURSIVE StringLength(_)
StringLength(s) ==
  IF s = <<>> THEN 0
  ELSE (IF Head(s) \in DOMAIN LongAtoms THEN LongAtoms[Head(s)] ELSE 1)
       + StringLength(Tail(s))

\* the property read v[k] of a value that is not nullish; k is a string
\* (a sequence of atoms).  An own property wins; a key that is not an own
\* property falls through to the prototype.
Get(v, k) ==
  CASE v.t = "object" ->
         IF k \in DOMAIN v.f THEN v.f[k]
         ELSE IF k \in ObjectProtoKeys THEN Fn ELSE Undef
    [] v.t = "string" ->
         IF k = <<"length">> THEN Num(StringLength(v.s))
         ELSE IF k \in ObjectProtoKeys THEN Fn ELSE Undef
    [] v.t \in {"function", "array", "number", "boolean"} ->
         IF k \in ObjectProtoKeys THEN Fn ELSE Undef
    [] OTHER -> Undef

\* current?.[key]
OptGet(current, key) == IF Nullish(current) THEN Undef ELSE Get(current, key)

\* Object.keys(v): the own keys, in insertion order
ObjectKeys(v) == IF v.t = "object" THEN v.keys ELSE <<>>

\* const r = x; body: the value of x is computed once and named
With(x, Body(_)) == CHOOSE v \in {Body(r) : r \in {x}} : TRUE

\* obj[key] = val: a key already there keeps its place and takes the new
\* value
PutOwn(obj, key, val) ==
  Obj(IF key \in DOMAIN obj.f THEN obj.keys ELSE Append(obj.keys, key),
      (key :> val) @@ obj.f)

\* an object built from <<key, value>> pairs, a pair whose value is
\* undefined standing for a key that is left out
RECURSIVE MkObjFrom(_, _)
MkObjFrom(pairs, acc) ==
  IF pairs = <<>> THEN acc
  ELSE With(<<Tail(pairs),
              IF Head(pairs)[2] = Undef THEN acc
              ELSE PutOwn(acc, Head(pairs)[1], Head(pairs)[2])>>,
            LAMBDA a : MkObjFrom(a[1], a[2]))

MkObj(pairs) == With(pairs, LAMBDA ps : MkObjFrom(ps, EmptyObj))

(***************************************************************************)
(* String operations used by the code.                                     *)
(***************************************************************************)
\* String.prototype.includes: needle occurs in s as a contiguous run
Includes(s, needle) ==
  \E i \in 1..(Len(s) - Len(needle) + 1) :
     SubSeq(s, i, i + Len(needle) - 1) = needle

StartsWith(s, pre) == Len(s) >= Len(pre) /\ SubSeq(s, 1, Len(pre)) = pre

EndsWith(s, suf) ==
  Len(s) >= Len(suf) /\ SubSeq(s, Len(s) - Len(suf) + 1, Len(s)) = suf

WhiteSpace == {" "}

\* String.prototype.trim
RECURSIVE TrimLeft(_)
TrimLeft(s) ==
  IF s # <<>> /\ Head(s) \in WhiteSpace THEN TrimLeft(Tail(s)) ELSE s

RECURSIVE TrimRight(_)
TrimRight(s) ==
  IF s # <<>> /\ s[Len(s)] \in WhiteSpace
  THEN TrimRight(SubSeq(s, 1, Len(s) - 1)) ELSE s

Trim(s) == TrimRight(TrimLeft(s))

\* Array.prototype.join
RECURSIVE Join(_, _)
Join(strs, sep) ==
  IF strs = <<>> THEN <<>>
  ELSE IF Len(strs) = 1 THEN strs[1]
  ELSE strs[1] \o sep \o Join(Tail(strs), sep)

(***************************************************************************)
(* JSON.parse, over the atoms of a text.  Array literals are outside the   *)
(* texts the model feeds it.                                               *)
(***************************************************************************)
Quote == "\""

NumberAtom == ("0" :> 0) @@ ("1" :> 1) @@ ("7" :> 7) @@ ("200" :> 200)

ParseFail == [ok |-> FALSE, v |-> Undef, i |-> 0]

RECURSIVE SkipWs(_, _)
SkipWs(t, i) ==
  IF i <= Len(t) /\ t[i] \in WhiteSpace THEN SkipWs(t, i + 1) ELSE i

\* the index of the closing quote of a string literal whose content starts at i
RECURSIVE ClosingQuote(_, _)
ClosingQuote(t, i) ==
  IF i > Len(t) THEN 0
  ELSE IF t[i] = Quote THEN i ELSE ClosingQuote(t, i + 1)

\* a string literal starting at the opening quote t[i]
ParseStringLit(t, i) ==
  IF i > Len(t) \/ t[i] # Quote THEN ParseFail
  ELSE With(ClosingQuote(t, i + 1),
            LAMBDA c : IF c = 0 THEN ParseFail
                       ELSE [ok |-> TRUE, v |-> Str(SubSeq(t, i + 1, c - 1)),
                             i |-> c + 1])

RECURSIVE ParseValue(_, _)
RECURSIVE ParseMembers(_, _, _)

\* the rest of an object literal after the member key : val, which ended
\* before t[e]
ParseMore(t, e, obj) ==
  IF e > Len(t) THEN ParseFail
  ELSE IF t[e] = "}" THEN [ok |-> TRUE, v |-> obj, i |-> e + 1]
  ELSE IF t[e] = "," THEN ParseMembers(t, e + 1, obj)
  ELSE ParseFail

\* the value of the member whose key is k, after the colon expected at t[c]
ParseMember(t, c, k, acc) ==
  IF c > Len(t) \/ t[c] # ":" THEN ParseFail
  ELSE With(ParseValue(t, SkipWs(t, c + 1)),
            LAMBDA val :
              IF ~val.ok THEN ParseFail
              ELSE With(<<SkipWs(t, val.i), PutOwn(acc, k, val.v)>>,
                        LAMBDA a : ParseMore(t, a[1], a[2])))

\* the members of an object literal after "{" or ",": acc is the object so far
ParseMembers(t, i, acc) ==
  With(ParseStringLit(t, SkipWs(t, i)),
       LAMBDA k : IF ~k.ok THEN ParseFail
                  ELSE With(SkipWs(t, k.i),
                            LAMBDA c : ParseMember(t, c, k.v.s, acc)))

\* one JSON value starting at t[i] (leading white space already skipped)
ParseValue(t, i) ==
  IF i > Len(t) THEN ParseFail
  ELSE CASE t[i] = "null" -> [ok |-> TRUE, v |-> Null, i |-> i + 1]
         [] t[i] = "true" -> [ok |-> TRUE, v |-> Bool(TRUE), i |-> i + 1]
         [] t[i] = "false" -> [ok |-> TRUE, v |-> Bool(FALSE), i |-> i + 1]
         [] t[i] \in DOMAIN NumberAtom ->
              [ok |-> TRUE, v |-> Num(NumberAtom[t[i]]), i |-> i + 1]
         [] t[i] = Quote -> ParseStringLit(t, i)
         [] t[i] = "{" ->
              With(SkipWs(t, i + 1),
                   LAMBDA j : IF j <= Len(t) /\ t[j] = "}"
                              THEN [ok |-> TRUE, v |-> EmptyObj, i |-> j + 1]
                              ELSE ParseMembers(t, i + 1, EmptyObj))
         [] OTHER -> ParseFail

\* JSON.parse of a text: the whole text must be one value
ParseText(t) ==
  With(ParseValue(t, SkipWs(t, 1)),
       LAMBDA r : IF r.ok /\ SkipWs(t, r.i) = Len(t) + 1
                  THEN [ok |-> TRUE, v |-> r.v]
                  ELSE [ok |-> FALSE, v |-> Undef])

\* JSON.parse(x): [ok, v]; ok = FALSE is the SyntaxError it throws.  The
\* argument is converted to a string first, so null reads as the text null
\* and undefined as the (invalid) text undefined.
JsonParse(x) ==
  CASE x.t = "string" -> ParseText(x.s)
    [] x.t = "null" -> [ok |-> TRUE, v |-> Null]
    [] OTHER -> [ok |-> FALSE, v |-> Undef]

(***************************************************************************)
(* Template literals: `${v}` converts v to a string.                       *)
(***************************************************************************)
Digits == <<"0", "1", "2", "3", "4", "5", "6", "7", "8", "9">>

RECURSIVE Numeral(_)
Numeral(n) ==
  IF n < 10 THEN <<Digits[n + 1]>>
  ELSE Numeral(n \div 10) \o <<Digits[(n % 10) + 1]>>

ToStr(v) ==
  CASE v.t = "string" -> v.s
    [] v.t = "number" -> IF v.n < 0 THEN <<"-">> \o Numeral(0 - v.n)
                         ELSE Numeral(v.n)
    [] v.t = "boolean" -> IF v.b THEN <<"true">> ELSE <<"false">>
    [] v.t = "object" -> <<"[object Object]">>
    [] OTHER -> <<v.t>>

(***************************************************************************)
(* Errors.  A thrown Error carries its message, a string.                  *)
(***************************************************************************)
NoError == [raised |-> FALSE, msg |-> <<>>]
Error(msg) == [raised |-> TRUE, msg |-> msg]

\* the message of the TypeError raised by reading a property of null
TypeErrorMsg == <<"TypeError: Cannot read property of null">>

\* typeof v
TypeOf(v) ==
  CASE v.t \in {"object", "array", "null"} -> "object"
    [] OTHER -> v.t

(***************************************************************************)
(* RequestValidator: the constructor keeps the validation config.          *)
(***************************************************************************)
NewRequestValidator(validationConfig) == [config |-> validationConfig]

(***************************************************************************)
(* BaseLoadTest: the constructor.  cls is the class that was instantiated: *)
(* BaseLoadTest itself or a class extending it, which inherits this        *)
(* constructor.                                                            *)
(***************************************************************************)
NoTest ==
  [cls |-> "none", serviceConfig |-> Undef, endpointConfig |-> Undef,
   testType |-> Undef, validator |-> NewRequestValidator(Undef),
   requestData |-> Undef]

NewBaseLoadTest(cls, serviceConfig, endpointConfig, testType) ==
  [cls |-> cls,
   serviceConfig |-> serviceConfig,
   endpointConfig |-> endpointConfig,
   testType |-> testType,
   validator |-> NewRequestValidator(Get(endpointConfig, <<"validation">>)),
   requestData |-> Null]

(***************************************************************************)
(* TestFactory.                                                            *)
(***************************************************************************)
RequiredMsg(field) == <<"TestFactory: ">> \o field \o <<" is required">>

\* _validateConfig testing the endpoints section before the service section
ValidateConfigEndpointsFirst(config) ==
  IF ~Truthy(config)
  THEN Error(<<"TestFactory: Configuration is required">>)
  ELSE LET service == Get(config, <<"service">>)
           endpoints == Get(config, <<"endpoints">>)
       IN IF ~Truthy(endpoints)
          THEN Error(RequiredMsg(<<"config", ".", "endpoints">>))
          ELSE IF TypeOf(endpoints) # "object" \/ endpoints.t = "array"
          THEN Error(<<"TestFactory: ", "config", ".", "endpoints",
                       " must be an object">>)
          ELSE IF Len(ObjectKeys(endpoints)) = 0
          THEN Error(<<"TestFactory: ", "config", ".", "endpoints",
                       " cannot be empty">>)
          ELSE IF ~Truthy(service)
          THEN Error(RequiredMsg(<<"config", ".", "service">>))
          ELSE IF ~Truthy(Get(service, <<"name">>))
          THEN Error(RequiredMsg(<<"config", ".", "service", ".", "name">>))
          ELSE IF ~Truthy(Get(service, <<"baseUrl">>))
          THEN Error(RequiredMsg(<<"config", ".", "service", ".", "baseUrl">>))
          ELSE NoError

\* TestFactory._validateConfig: the error it throws, or NoError
ValidateConfig(config) ==
  IF ~Truthy(config)
  THEN Error(<<"TestFactory: Configuration is required">>)
  ELSE LET service == Get(config, <<"service">>)
           endpoints == Get(config, <<"endpoints">>)
       IN IF ~Truthy(service)
          THEN Error(RequiredMsg(<<"config", ".", "service">>))
          ELSE IF ~Truthy(Get(service, <<"name">>))
          THEN Error(RequiredMsg(<<"config", ".", "service", ".", "name">>))
          ELSE IF ~Truthy(Get(service, <<"baseUrl">>))
          THEN Error(RequiredMsg(<<"config", ".", "service", ".", "baseUrl">>))
          ELSE IF ~Truthy(endpoints)
          THEN Error(RequiredMsg(<<"config", ".", "endpoints">>))
          ELSE IF TypeOf(endpoints) # "object" \/ endpoints.t = "array"
          THEN Error(<<"TestFactory: ", "config", ".", "endpoints",
                       " must be an object">>)
          ELSE IF Len(ObjectKeys(endpoints)) = 0
          THEN Error(<<"TestFactory: ", "config", ".", "endpoints",
                       " cannot be empty">>)
          ELSE NoError

EndpointRequiredMsg(endpointName, field) ==
  RequiredMsg(<<"endpoints", ".">> \o endpointName \o <<".", field>>)

\* _getEndpointConfig without its test of validation
GetEndpointConfigNoValidation(config, endpointName) ==
  LET name == ToStr(endpointName)
      endpointConfig == Get(Get(config, <<"endpoints">>), name)
      fail(e) == [err |-> e, v |-> Undef]
  IN IF ~Truthy(endpointConfig)
     THEN fail(Error(<<"TestFactory: Endpoint '">> \o name
                     \o <<"' not found in configuration. ">>
                     \o <<"Available endpoints: ">>
                     \o Join(ObjectKeys(Get(config, <<"endpoints">>)),
                             <<", ">>)))
     ELSE IF ~Truthy(Get(endpointConfig, <<"path">>))
     THEN fail(Error(EndpointRequiredMsg(name, "path")))
     ELSE IF ~Truthy(Get(endpointConfig, <<"dataSource">>))
     THEN fail(Error(EndpointRequiredMsg(name, "dataSource")))
     ELSE IF ~Truthy(Get(endpointConfig, <<"loadProfiles">>))
     THEN fail(Error(EndpointRequiredMsg(name, "loadProfiles")))
     ELSE [err |-> NoError, v |-> endpointConfig]

\* TestFactory._getEndpointConfig: [err, v], v the endpoint's config
GetEndpointConfig(config, endpointName) ==
  LET name == ToStr(endpointName)
      endpointConfig == Get(Get(config, <<"endpoints">>), name)
      fail(e) == [err |-> e, v |-> Undef]
  IN IF ~Truthy(endpointConfig)
     THEN fail(Error(<<"TestFactory: Endpoint '">> \o name
                     \o <<"' not found in configuration. ">>
                     \o <<"Available endpoints: ">>
                     \o Join(ObjectKeys(Get(config, <<"endpoints">>)),
                             <<", ">>)))
     ELSE IF ~Truthy(Get(endpointConfig, <<"path">>))
     THEN fail(Error(EndpointRequiredMsg(name, "path")))
     ELSE IF ~Truthy(Get(endpointConfig, <<"dataSource">>))
     THEN fail(Error(EndpointRequiredMsg(name, "dataSource")))
     ELSE IF ~Truthy(Get(endpointConfig, <<"validation">>))
     THEN fail(Error(EndpointRequiredMsg(name, "validation")))
     ELSE IF ~Truthy(Get(endpointConfig, <<"loadProfiles">>))
     THEN fail(Error(EndpointRequiredMsg(name, "loadProfiles")))
     ELSE [err |-> NoError, v |-> endpointConfig]

\* ['smoke', 'load'].includes(testType)
ValidTestType(testType) == testType \in {S("smoke"), S("load")}

InvalidTestTypeMsg(testType) ==
  <<"TestFactory: Invalid test type '">> \o ToStr(testType)
  \o <<"'. Must be 'smoke' or 'load'.">>

\* createTest without the use of CustomTestClass
TestClassDefaultOnly(CustomTestClass) == "BaseLoadTest"

\* CustomTestClass || BaseLoadTest
TestClass(CustomTestClass) ==
  IF Truthy(CustomTestClass) THEN CustomTestClass.name ELSE "BaseLoadTest"

\* new TestClass(config.service, endpointConfig, testType), once the
\* endpoint's config is found
Construct(config, ep, testType, CustomTestClass) ==
  IF ep.err.raised THEN [err |-> ep.err, test |-> NoTest, constructed |-> 0]
  ELSE [err |-> NoError,
        test |-> NewBaseLoadTest(TestClass(CustomTestClass),
                                 Get(config, <<"service">>), ep.v, testType),
        constructed |-> 1]

\* createTest that looks the endpoint up before it tests the test type
CreateTestEndpointFirst(config, endpointName, testType, CustomTestClass) ==
  LET fail(e) == [err |-> e, test |-> NoTest, constructed |-> 0]
  IN With(ValidateConfig(config),
          LAMBDA v :
            IF v.raised THEN fail(v)
            ELSE With(GetEndpointConfig(config, endpointName),
                      LAMBDA ep :
                        IF ep.err.raised THEN fail(ep.err)
                        ELSE IF ~ValidTestType(testType)
                        THEN fail(Error(InvalidTestTypeMsg(testType)))
                        ELSE Construct(config, ep, testType, CustomTestClass)))

\* TestFactory.createTest: [err, test, constructed], constructed the number
\* of times a Runner constructor was invoked
CreateTestResult(config, endpointName, testType, CustomTestClass) ==
  LET fail(e) == [err |-> e, test |-> NoTest, constructed |-> 0]
  IN With(ValidateConfig(config),
          LAMBDA v :
            IF v.raised THEN fail(v)
            ELSE IF ~ValidTestType(testType)
            THEN fail(Error(InvalidTestTypeMsg(testType)))
            ELSE With(GetEndpointConfig(config, endpointName),
                      LAMBDA ep : Construct(config, ep, testType,
                                            CustomTestClass)))

(***************************************************************************)
(* BaseLoadTest.getOptions.                                                *)
(***************************************************************************)
\* _buildStages without its test of the load profile
BuildStagesUnchecked(test) ==
  [err |-> NoError,
   v |-> OptGet(OptGet(Get(test.endpointConfig, <<"loadProfiles">>),
                       test.testType.s),
                <<"stages">>)]

\* _buildStages reading the smoke profile whatever the test type
BuildStagesSmoke(test) ==
  LET loadProfiles == Get(test.endpointConfig, <<"loadProfiles">>)
  IN IF ~Truthy(loadProfiles) \/ ~Truthy(Get(loadProfiles, <<"smoke">>))
     THEN [err |-> Error(<<"BaseLoadTest: No load profile found for test type '">>
                         \o test.testType.s \o <<"'">>),
           v |-> Undef]
     ELSE [err |-> NoError,
           v |-> Get(Get(loadProfiles, <<"smoke">>), <<"stages">>)]

\* BaseLoadTest._buildStages: [err, v]
BuildStages(test) ==
  LET loadProfiles == Get(test.endpointConfig, <<"loadProfiles">>)
  IN IF ~Truthy(loadProfiles) \/ ~Truthy(Get(loadProfiles, test.testType.s))
     THEN [err |-> Error(<<"BaseLoadTest: No load profile found for test type '">>
                         \o test.testType.s \o <<"'">>),
           v |-> Undef]
     ELSE [err |-> NoError,
           v |-> Get(Get(loadProfiles, test.testType.s), <<"stages">>)]

\* _buildThresholds returning its default whatever the config
BuildThresholdsDefault(test) ==
  MkObj(<< <<(<<"http_req_failed">>), Arr(<<S("rate<0.1")>>)>> >>)

\* BaseLoadTest._buildThresholds
BuildThresholds(test) ==
  LET thresholdConfig == Get(test.endpointConfig, <<"thresholds">>)
      p95 == Get(thresholdConfig, <<"p95Duration">>)
      p99 == Get(thresholdConfig, <<"p99Duration">>)
      errorRate == Get(thresholdConfig, <<"errorRate">>)
      checkPassRate == Get(thresholdConfig, <<"checkPassRate">>)
      durationThresholds ==
        (IF Truthy(p95) THEN <<Str(<<"p(95)<">> \o ToStr(p95))>> ELSE <<>>)
        \o (IF Truthy(p99) THEN <<Str(<<"p(99)<">> \o ToStr(p99))>> ELSE <<>>)
  IN IF ~Truthy(thresholdConfig)
     THEN MkObj(<< <<(<<"http_req_failed">>), Arr(<<S("rate<0.1")>>)>> >>)
     ELSE MkObj(<<
            <<(<<"http_req_duration">>),
              IF Truthy(p95) \/ Truthy(p99) THEN Arr(durationThresholds)
              ELSE Undef>>,
            <<(<<"http_req_failed">>),
              IF errorRate # Undef
              THEN Arr(<<Str(<<"rate<">> \o ToStr(errorRate))>>) ELSE Undef>>,
            <<(<<"checks">>),
              IF checkPassRate # Undef
              THEN Arr(<<Str(<<"rate>">> \o ToStr(checkPassRate))>>)
              ELSE Undef>> >>)

\* getOptions of a test whose init() has taken the load profile away
GetOptionsOnceOnly(test) ==
  [err |-> NoError,
   v |-> MkObj(<<
     <<(<<"stages">>),
       IF test.requestData = Null THEN BuildStages(test).v ELSE Arr(<<>>)>>,
     <<(<<"thresholds">>), BuildThresholds(test)>>,
     <<(<<"summaryTrendStats">>),
       Arr(<<S("avg"), S("min"), S("med"), S("max"), S("p(95)"),
             S("p(99)")>>)>>,
     <<(<<"gracefulStop">>), S("30s")>> >>)]

\* BaseLoadTest.getOptions: [err, v]
GetOptionsResult(test) ==
  With(BuildStages(test),
       LAMBDA stages :
         IF stages.err.raised THEN [err |-> stages.err, v |-> Undef]
         ELSE [err |-> NoError,
               v |-> MkObj(<<
                 <<(<<"stages">>), stages.v>>,
                 <<(<<"thresholds">>), BuildThresholds(test)>>,
                 <<(<<"summaryTrendStats">>),
                   Arr(<<S("avg"), S("min"), S("med"), S("max"), S("p(95)"),
                         S("p(99)")>>)>>,
                 <<(<<"gracefulStop">>), S("30s")>> >>)])

(***************************************************************************)
(* CSVDataLoader.  A file is what papaparse makes of it: the rows, each an *)
(* object from column name to cell text; a short row lacks its last        *)
(* columns.                                                                *)
(***************************************************************************)
\* CSVDataLoader._parseRequestJson: the parsed value, or null
ParseRequestJson(row, requestColumn) ==
  LET jsonString == Get(row, requestColumn)
  IN IF ~Truthy(jsonString) \/ Trim(jsonString.s) = <<>> THEN Null
     ELSE With(JsonParse(jsonString), LAMBDA r : IF r.ok THEN r.v ELSE Null)

\* the test of _filterByEndpoint without its includes
EndpointEquals(row, endpoint) ==
  LET api == Get(row, <<"api_endpoint">>)
  IN IF ~Truthy(api) THEN FALSE ELSE api = endpoint

\* the test of CSVDataLoader._filterByEndpoint on one row
EndpointMatches(row, endpoint) ==
  LET api == Get(row, <<"api_endpoint">>)
  IN IF ~Truthy(api) THEN FALSE
     ELSE api = endpoint \/ Includes(api.s, endpoint.s)

\* CSVDataLoader._filterByEndpoint
FilterByEndpoint(rows, endpoint) ==
  SelectSeq(rows, LAMBDA row : EndpointMatches(row, endpoint))

\* rows.map(row => _parseRequestJson(row, requestColumn))
MapParse(rows, requestColumn) ==
  [i \in 1..Len(rows) |-> ParseRequestJson(rows[i], requestColumn)]

\* the requests without those equal to an earlier one
RECURSIVE Unique(_)
Unique(requests) ==
  IF requests = <<>> THEN <<>>
  ELSE With(Unique(SubSeq(requests, 1, Len(requests) - 1)),
            LAMBDA front :
              IF \E i \in 1..Len(front) : front[i] = requests[Len(requests)]
              THEN front ELSE Append(front, requests[Len(requests)]))

\* the map and filter of load, followed by the removal of duplicates
ParsedRequestsUnique(rows, requestColumn) ==
  Unique(SelectSeq(MapParse(rows, requestColumn), LAMBDA req : req # Null))

\* rows.map(...).filter(req => req !== null)
ParsedRequests(rows, requestColumn) ==
  SelectSeq(MapParse(rows, requestColumn), LAMBDA req : req # Null)

\* the rows that the callback parses
RowsToParse(filterByEndpoint, rows) ==
  IF Truthy(filterByEndpoint) THEN FilterByEndpoint(rows, filterByEndpoint)
  ELSE rows

\* the end of the callback without its test of requests.length
ReturnRequestsUnchecked(path, requestColumn, requests) ==
  [err |-> NoError, v |-> Arr(requests)]

\* the end of the callback: an empty array of requests is an error
ReturnRequests(path, requestColumn, requests) ==
  IF Len(requests) = 0
  THEN [err |-> Error(<<"CSVDataLoader: No valid requests found in ">>
                      \o ToStr(path) \o <<" (column: ">>
                      \o ToStr(requestColumn) \o <<")">>),
        v |-> Undef]
  ELSE [err |-> NoError, v |-> Arr(requests)]

\* the callback given to SharedArray: [err, v], v the array it returns
LoadCallback(path, requestColumn, filterByEndpoint, file) ==
  IF ~file.readable
  THEN [err |-> Error(<<"CSVDataLoader: Failed to read CSV file at ">>
                      \o ToStr(path)),
        v |-> Undef]
  ELSE With(ParsedRequests(RowsToParse(filterByEndpoint, file.rows),
                           ToStr(requestColumn)),
            LAMBDA requests : ReturnRequests(path, requestColumn, requests))

\* new SharedArray(name, callback): the callback runs only for a name that
\* no SharedArray holds yet; a name already held yields the array it holds.
\* registry maps the names held to their arrays.
NewSharedArray(name, path, requestColumn, filterByEndpoint, file, registry) ==
  IF name \in DOMAIN registry
  THEN [err |-> NoError, v |-> registry[name], opened |-> FALSE,
        registry |-> registry]
  ELSE With(LoadCallback(path, requestColumn, filterByEndpoint, file),
            LAMBDA r : [err |-> r.err, v |-> r.v, opened |-> TRUE,
                        registry |-> IF r.err.raised THEN registry
                                     ELSE (name :> r.v) @@ registry])

\* load without its test of requestColumn
LoadResultNoColumnTest(dataSourceConfig, sharedArrayName, file, registry) ==
  LET path == Get(dataSourceConfig, <<"path">>)
      requestColumn == Get(dataSourceConfig, <<"requestColumn">>)
      filterByEndpoint == Get(dataSourceConfig, <<"filterByEndpoint">>)
      fail(e) == [err |-> e, v |-> Undef, opened |-> FALSE,
                  registry |-> registry]
  IN IF ~Truthy(path)
     THEN fail(Error(<<"CSVDataLoader: ", "dataSourceConfig", ".", "path",
                       " is required">>))
     ELSE IF ~Truthy(sharedArrayName)
     THEN fail(Error(<<"CSVDataLoader: ", "sharedArrayName", " is required">>))
     ELSE NewSharedArray(sharedArrayName.s, path, requestColumn,
                         filterByEndpoint, file, registry)

\* CSVDataLoader.load: [err, v, opened, registry]; opened tells whether the
\* file was opened
LoadResult(dataSourceConfig, sharedArrayName, file, registry) ==
  LET path == Get(dataSourceConfig, <<"path">>)
      requestColumn == Get(dataSourceConfig, <<"requestColumn">>)
      filterByEndpoint == Get(dataSourceConfig, <<"filterByEndpoint">>)
      fail(e) == [err |-> e, v |-> Undef, opened |-> FALSE,
                  registry |-> registry]
  IN IF ~Truthy(path)
     THEN fail(Error(<<"CSVDataLoader: ", "dataSourceConfig", ".", "path",
                       " is required">>))
     ELSE IF ~Truthy(requestColumn)
     THEN fail(Error(<<"CSVDataLoader: ", "dataSourceConfig", ".",
                       "requestColumn", " is required">>))
     ELSE IF ~Truthy(sharedArrayName)
     THEN fail(Error(<<"CSVDataLoader: ", "sharedArrayName", " is required">>))
     ELSE NewSharedArray(sharedArrayName.s, path, requestColumn,
                         filterByEndpoint, file, registry)

\* the name of the SharedArray with the path of the data source in it
SharedArrayNameWithSource(test) ==
  Str(ToStr(Get(test.serviceConfig, <<"name">>)) \o <<"-">>
      \o ToStr(Get(test.endpointConfig, <<"path">>)) \o <<"-">>
      \o ToStr(Get(Get(test.endpointConfig, <<"dataSource">>), <<"path">>))
      \o <<"-data">>)

\* the name init() gives the SharedArray
SharedArrayName(test) ==
  Str(ToStr(Get(test.serviceConfig, <<"name">>)) \o <<"-">>
      \o ToStr(Get(test.endpointConfig, <<"path">>)) \o <<"-data">>)

\* BaseLoadTest.init: [err, test, opened, registry]
InitResult(test, file, registry) ==
  With(LoadResult(Get(test.endpointConfig, <<"dataSource">>),
                  SharedArrayName(test), file, registry),
       LAMBDA r : [err |-> r.err,
                   test |-> IF r.err.raised THEN test
                            ELSE [test EXCEPT !.requestData = r.v],
                   opened |-> r.opened,
                   registry |-> r.registry])

(***************************************************************************)
(* RequestValidator.  A response is what k6 hands back: status, body (a    *)
(* string, or null when there is none) and timings.duration in ms.         *)
(***************************************************************************)
\* a === b
StrictEq(a, b) ==
  /\ a.t = b.t
  /\ a.t \in {"undefined", "null", "string", "number", "boolean"}
  /\ a = b

\* path.split('.')
RECURSIVE SplitDots(_, _)
SplitDots(path, cur) ==
  IF path = <<>> THEN <<cur>>
  ELSE IF Head(path) = "." THEN <<cur>> \o SplitDots(Tail(path), <<>>)
  ELSE With(<<Tail(path), Append(cur, Head(path))>>,
            LAMBDA a : SplitDots(a[1], a[2]))

\* keys.reduce((current, key) => current?.[key], obj)
RECURSIVE ReduceGet(_, _)
ReduceGet(keys, current) ==
  IF keys = <<>> THEN current
  ELSE With(<<Tail(keys), OptGet(current, Head(keys))>>,
            LAMBDA a : ReduceGet(a[1], a[2]))

\* _getNestedField without the split of the path
GetNestedFieldNoSplit(obj, path) == OptGet(obj, path)

\* RequestValidator._getNestedField
GetNestedField(obj, path) ==
  With(SplitDots(path, <<>>), LAMBDA keys : ReduceGet(keys, obj))

\* checks[label] = check: a label already there keeps its place and takes
\* the new check
PutCheck(checks, c) ==
  IF \E i \in 1..Len(checks) : checks[i].label = c.label
  THEN [i \in 1..Len(checks) |->
          IF checks[i].label = c.label THEN c ELSE checks[i]]
  ELSE Append(checks, c)

StatusCheck(statusCode) ==
  [label |-> <<"status", " is ">> \o ToStr(statusCode), kind |-> "status",
   path |-> <<>>, expected |-> statusCode]

FieldCheck(fieldPath) ==
  [label |-> <<"has field '">> \o ToStr(fieldPath) \o <<"'">>,
   kind |-> "field", path |-> ToStr(fieldPath), expected |-> Undef]

SuccessCheck(successField, expectedValue) ==
  [label |-> ToStr(successField) \o <<" is ">> \o ToStr(expectedValue),
   kind |-> "success", path |-> ToStr(successField),
   expected |-> expectedValue]

DurationCheck(maxDuration) ==
  [label |-> <<"response time < ">> \o ToStr(maxDuration) \o <<"ms">>,
   kind |-> "duration", path |-> <<>>, expected |-> maxDuration]

\* requiredFields.forEach(fieldPath => checks[...] = ...)
RECURSIVE PutFieldChecks(_, _)
PutFieldChecks(checks, fields) ==
  IF fields = <<>> THEN checks
  ELSE With(<<PutCheck(checks, FieldCheck(Head(fields))), Tail(fields)>>,
            LAMBDA a : PutFieldChecks(a[1], a[2]))

\* RequestValidator._buildChecks: the checks in the order of their labels
BuildChecks(validator) ==
  LET cfg == validator.config
      statusCode == Get(cfg, <<"statusCode">>)
      requiredFields == Get(cfg, <<"requiredFields">>)
      successField == Get(cfg, <<"successField">>)
      successValue == Get(cfg, <<"successValue">>)
      maxDuration == Get(cfg, <<"maxDuration">>)
      expectedValue == IF successValue # Undef THEN successValue ELSE Bool(TRUE)
      Check1(checks) ==
        IF Truthy(statusCode) THEN PutCheck(checks, StatusCheck(statusCode))
        ELSE checks
      Check2(checks) ==
        IF Truthy(requiredFields) /\ requiredFields.t = "array"
        THEN PutFieldChecks(checks, requiredFields.a)
        ELSE checks
      Check3(checks) ==
        IF Truthy(successField)
        THEN PutCheck(checks, SuccessCheck(successField, expectedValue))
        ELSE checks
      Check4(checks) ==
        IF Truthy(maxDuration) THEN PutCheck(checks, DurationCheck(maxDuration))
        ELSE checks
  IN With(Check1(<<>>),
          LAMBDA c1 : With(Check2(c1),
                           LAMBDA c2 : With(Check3(c2),
                                            LAMBDA c3 : Check4(c3))))

\* the checks with a catch that returns true
CheckPassesOnThrow(c, r) ==
  CASE c.kind = "status" -> StrictEq(r.status, c.expected)
    [] c.kind = "field" ->
         With(JsonParse(r.body),
              LAMBDA body :
                \/ ~body.ok
                \/ With(GetNestedField(body.v, c.path),
                        LAMBDA value : value # Undef /\ value # Null))
    [] c.kind = "success" ->
         With(JsonParse(r.body),
              LAMBDA body :
                \/ ~body.ok
                \/ StrictEq(GetNestedField(body.v, c.path), c.expected))
    [] c.kind = "duration" -> r.duration.n < c.expected.n

\* the check of a required field testing its value for truthiness
CheckPassesTruthy(c, r) ==
  CASE c.kind = "status" -> StrictEq(r.status, c.expected)
    [] c.kind = "field" ->
         With(JsonParse(r.body),
              LAMBDA body :
                /\ body.ok
                /\ Truthy(GetNestedField(body.v, c.path)))
    [] c.kind = "success" ->
         With(JsonParse(r.body),
              LAMBDA body :
                /\ body.ok
                /\ StrictEq(GetNestedField(body.v, c.path), c.expected))
    [] c.kind = "duration" -> r.duration.n < c.expected.n

\* one check applied to a response; the field checks catch what
\* JSON.parse throws
CheckPasses(c, r) ==
  CASE c.kind = "status" -> StrictEq(r.status, c.expected)
    [] c.kind = "field" ->
         With(JsonParse(r.body),
              LAMBDA body :
                /\ body.ok
                /\ With(GetNestedField(body.v, c.path),
                        LAMBDA value : value # Undef /\ value # Null))
    [] c.kind = "success" ->
         With(JsonParse(r.body),
              LAMBDA body :
                /\ body.ok
                /\ StrictEq(GetNestedField(body.v, c.path), c.expected))
    [] c.kind = "duration" -> r.duration.n < c.expected.n

\* k6's check(response, checks): every check is run; true when all pass
CheckAll(r, checks) == \A i \in 1..Len(checks) : CheckPasses(checks[i], r)

\* RequestValidator._logFailure: the error it raises, or NoError.  What it
\* prints is console output; it reads response.body.length whatever the
\* body is, which raises a TypeError on a null body.
LogFailure(r) == IF Nullish(r.body) THEN Error(TypeErrorMsg) ELSE NoError

\* RequestValidator.validate: [err, v], v the result of the checks
ValidateResult(validator, r) ==
  With(CheckAll(r, BuildChecks(validator)),
       LAMBDA result :
         [err |-> IF ~result THEN LogFailure(r) ELSE NoError,
          v |-> Bool(result)])

(***************************************************************************)
(* BaseLoadTest: the hooks of run().  CustomEndpointTest is the class of   *)
(* the README that extends BaseLoadTest and overrides prepareRequest and   *)
(* validateResponse.                                                       *)
(***************************************************************************)
\* the denominator of the values Math.random() takes: k / RandomSteps for
\* k in 0 .. RandomSteps - 1
RandomSteps == 4

\* Math.ceil(Math.random() * length)
RandomIndexCeil(k, length) == (k * length + RandomSteps - 1) \div RandomSteps

\* Math.floor(Math.random() * length), Math.random() being k / RandomSteps
RandomIndex(k, length) == (k * length) \div RandomSteps

\* selectData: [err, v]; reading .length of a null requestData raises
SelectDataResult(test, k) ==
  IF Nullish(test.requestData) THEN [err |-> Error(TypeErrorMsg), v |-> Undef]
  ELSE LET a == test.requestData.a
           randomIndex == RandomIndex(k, Len(a))
       IN [err |-> NoError,
           v |-> IF randomIndex + 1 \in DOMAIN a THEN a[randomIndex + 1]
                 ELSE Undef]

\* { ...data, timestamp }: a new object with the own properties of data
SpreadWith(data, key, val) ==
  PutOwn(IF data.t = "object" THEN data ELSE EmptyObj, key, val)

\* prepareRequest
PrepareRequest(test, data, now) ==
  IF test.cls = "CustomEndpointTest"
  THEN SpreadWith(data, <<"timestamp">>, now)
  ELSE data

\* buildHeaders
BuildHeaders(test) ==
  LET h == Get(test.endpointConfig, <<"headers">>)
  IN IF Truthy(h) THEN h ELSE EmptyObj

\* buildUrl as the plain concatenation of baseUrl and path
BuildUrlConcat(test) ==
  Str(Get(test.serviceConfig, <<"baseUrl">>).s
      \o Get(test.endpointConfig, <<"path">>).s)

\* buildUrl
BuildUrl(test) ==
  LET baseUrl == Get(test.serviceConfig, <<"baseUrl">>).s
      path == Get(test.endpointConfig, <<"path">>).s
      cleanBaseUrl == IF EndsWith(baseUrl, <<"/">>)
                      THEN SubSeq(baseUrl, 1, Len(baseUrl) - 1) ELSE baseUrl
      cleanPath == IF StartsWith(path, <<"/">>) THEN path ELSE <<"/">> \o path
  IN Str(cleanBaseUrl \o cleanPath)

\* String.prototype.toUpperCase / toLowerCase on the atoms that spell
\* method names
UpperAtom ==
  ("post" :> "POST") @@ ("get" :> "GET") @@ ("put" :> "PUT")
  @@ ("patch" :> "PATCH") @@ ("delete" :> "DELETE") @@ ("trace" :> "TRACE")
  @@ ("Post" :> "POST") @@ ("Get" :> "GET") @@ ("Delete" :> "DELETE")

ToUpperCase(s) ==
  [i \in 1..Len(s) |-> IF s[i] \in DOMAIN UpperAtom THEN UpperAtom[s[i]] ELSE s[i]]

\* JSON.stringify of a value JSON.parse can produce
RECURSIVE Stringify(_)
RECURSIVE StringifyMembers(_, _)
StringifyMembers(obj, keys) ==
  IF keys = <<>> THEN <<>>
  ELSE <<Quote>> \o Head(keys) \o <<Quote, ":">> \o Stringify(obj.f[Head(keys)])
       \o (IF Len(keys) > 1 THEN <<",">> ELSE <<>>)
       \o StringifyMembers(obj, Tail(keys))

Stringify(v) ==
  CASE v.t = "string" -> <<Quote>> \o v.s \o <<Quote>>
    [] v.t = "object" -> <<"{">> \o StringifyMembers(v, v.keys) \o <<"}">>
    [] v.t = "undefined" -> <<"undefined">>
    [] OTHER -> ToStr(v)

NoRequest ==
  [verb |-> "none", url |-> Undef, body |-> Undef, headers |-> Undef,
   timeout |-> <<>>]

\* makeRequest with POST as the default branch of its switch
MakeRequestDefaultPost(test, url, payload, headers) ==
  LET m == Get(test.endpointConfig, <<"method">>)
      method == ToUpperCase(IF Truthy(m) THEN m.s ELSE <<"POST">>)
      req(verb, body) ==
        [err |-> NoError,
         req |-> [verb |-> verb, url |-> url, body |-> body,
                  headers |-> headers, timeout |-> <<"30s">>]]
  IN IF method = <<"GET">> THEN req("GET", Undef)
     ELSE IF method = <<"DELETE">> THEN req("DELETE", Null)
     ELSE req(method[1], Str(Stringify(payload)))

\* makeRequest comparing the method as it is spelled in the config
MakeRequestCaseSensitive(test, url, payload, headers) ==
  LET m == Get(test.endpointConfig, <<"method">>)
      method == IF Truthy(m) THEN m.s ELSE <<"POST">>
      req(verb, body) ==
        [err |-> NoError,
         req |-> [verb |-> verb, url |-> url, body |-> body,
                  headers |-> headers, timeout |-> <<"30s">>]]
  IN IF method \in {<<"POST">>, <<"PUT">>, <<"PATCH">>}
     THEN req(method[1], Str(Stringify(payload)))
     ELSE IF method = <<"GET">> THEN req("GET", Undef)
     ELSE IF method = <<"DELETE">> THEN req("DELETE", Null)
     ELSE [err |-> Error(<<"BaseLoadTest: Unsupported HTTP method: ">>
                         \o method),
           req |-> NoRequest]

\* makeRequest, up to the call of k6's http: [err, req], req the request
\* that is dispatched
MakeRequestResult(test, url, payload, headers) ==
  LET m == Get(test.endpointConfig, <<"method">>)
      method == ToUpperCase(IF Truthy(m) THEN m.s ELSE <<"POST">>)
      req(verb, body) ==
        [err |-> NoError,
         req |-> [verb |-> verb, url |-> url, body |-> body,
                  headers |-> headers, timeout |-> <<"30s">>]]
  IN IF method \in {<<"POST">>, <<"PUT">>, <<"PATCH">>}
     THEN req(method[1], Str(Stringify(payload)))
     ELSE IF method = <<"GET">> THEN req("GET", Undef)
     ELSE IF method = <<"DELETE">> THEN req("DELETE", Null)
     ELSE [err |-> Error(<<"BaseLoadTest: Unsupported HTTP method: ">>
                         \o method),
           req |-> NoRequest]

(***************************************************************************)
(* The request helper of merchant-java-load-test-common-framework.js.      *)
(***************************************************************************)
BASE_URL == <<"https://merchant-java.bharatpe.co.in", "/">>

\* encodeURIComponent on the characters the payloads of the model hold that
\* it escapes; a run of letters and digits is left as it is
PercentEncoded == ("&" :> "%26") @@ ("=" :> "%3D") @@ (" " :> "%20")

EncodeURIComponent(s) ==
  [i \in 1..Len(s) |->
     IF s[i] \in DOMAIN PercentEncoded THEN PercentEncoded[s[i]] ELSE s[i]]

\* Object.keys(payload).filter(...).map(...).join('&')
RECURSIVE QueryParams(_, _)
QueryParams(payload, keys) ==
  IF keys = <<>> THEN <<>>
  ELSE With(QueryParams(payload, Tail(keys)), LAMBDA rest :
         IF Nullish(payload.f[Head(keys)]) THEN rest
         ELSE EncodeURIComponent(Head(keys)) \o <<"=">>
              \o EncodeURIComponent(ToStr(payload.f[Head(keys)]))
              \o (IF rest = <<>> THEN <<>> ELSE <<"&">> \o rest))

\* { ...a, ...b }
RECURSIVE Spread(_, _, _)
Spread(a, b, keys) ==
  IF keys = <<>> THEN a
  ELSE Spread(PutOwn(a, Head(keys), b.f[Head(keys)]), b, Tail(keys))

\* makeRequest(endpoint, payload, headers, method) of the helper: the
\* request it dispatches, NoRequest when it returns without one
CommonMakeRequest(endpoint, payload, headers, method) ==
  With(BASE_URL \o endpoint.s, LAMBDA url :
    With(Spread(MkObj(<< <<(<<"Content-Type">>), S("application/json")>> >>),
                headers, headers.keys),
         LAMBDA finalHeaders :
           IF method = S("POST")
           THEN [verb |-> "POST", url |-> Str(url),
                 body |-> Str(Stringify(payload)),
                 headers |-> finalHeaders, timeout |-> <<"30s">>]
           ELSE IF method = S("GET")
           THEN With(QueryParams(payload, payload.keys), LAMBDA queryParams :
                  [verb |-> "GET",
                   url |-> Str(IF queryParams # <<>>
                               THEN url \o <<"?">> \o queryParams ELSE url),
                   body |-> Undef,
                   headers |-> finalHeaders, timeout |-> <<"30s">>])
           ELSE NoRequest))

\* validateResponse: [err, v]; run() tests v for truthiness
ValidateResponseResult(test, r) ==
  With(ValidateResult(test.validator, r),
       LAMBDA base :
         IF test.cls = "CustomEndpointTest" /\ ~base.err.raised
         THEN [err |-> NoError,
               v |-> MkObj(<< <<(<<"custom check">>), Fn>> >>)]
         ELSE base)

\* getThinkTime
GetThinkTime(test) ==
  LET thinkTime == Get(test.endpointConfig, <<"thinkTime">>)
  IN IF Truthy(thinkTime) THEN thinkTime ELSE Num(1)

(***************************************************************************)
(* The inputs: the config document and the arguments of createTest, as the *)
(* entry script passes them.  A scenario is the config file of the README  *)
(* with up to two of its fields or arguments changed.                      *)
(***************************************************************************)
Stage(duration, target) ==
  MkObj(<< <<(<<"duration">>), S(duration)>>, <<(<<"target">>), Num(target)>> >>)

Profile(stages) == MkObj(<< <<(<<"stages">>), Arr(stages)>> >>)

BothProfiles ==
  MkObj(<< <<(<<"smoke">>), Profile(<<Stage("30s", 1)>>)>>,
           <<(<<"load">>), Profile(<<Stage("1m", 5), Stage("1m", 0)>>)>> >>)

SmokeOnly == MkObj(<< <<(<<"smoke">>), Profile(<<Stage("30s", 1)>>)>> >>)

FullValidation ==
  MkObj(<< <<(<<"statusCode">>), Num(200)>>,
           <<(<<"requiredFields">>),
             Arr(<<S("success"), Str(<<"data", ".", "accessToken">>)>>)>>,
           <<(<<"successField">>), S("success")>>,
           <<(<<"successValue">>), Bool(TRUE)>> >>)

TimedValidation ==
  MkObj(<< <<(<<"statusCode">>), Num(200)>>,
           <<(<<"maxDuration">>), Num(500)>> >>)

SomeThresholds ==
  MkObj(<< <<(<<"p95Duration">>), Num(500)>>,
           <<(<<"errorRate">>), Num(0)>> >>)

JsonHeaders == MkObj(<< <<(<<"Content-Type">>), S("application/json")>> >>)

BaseScenario ==
  [doc |-> S("ok"), service |-> S("ok"), name |-> S("auth"),
   baseUrl |-> S("https://x.io"), endpoints |-> S("ok"), second |-> S("ok"),
   path |-> Str(<<"/", "login">>), method |-> S("post"),
   dataSource |-> S("ok"), dsPath |-> S("requests.csv"),
   requestColumn |-> S("request_json"), filter |-> Str(<<"/", "login">>),
   headers |-> JsonHeaders, validation |-> FullValidation,
   thresholds |-> Undef, loadProfiles |-> BothProfiles, thinkTime |-> Undef,
   endpointName |-> S("login"), testType |-> S("load"), custom |-> Null]

CustomEndpointTest == [t |-> "class", name |-> "CustomEndpointTest"]

\* changes after which startup fails
Defects ==
  {[k |-> "doc", v |-> Null], [k |-> "service", v |-> Undef],
   [k |-> "name", v |-> Undef], [k |-> "name", v |-> Str(<<>>)],
   [k |-> "baseUrl", v |-> Undef], [k |-> "endpoints", v |-> Undef],
   [k |-> "endpoints", v |-> Arr(<<>>)], [k |-> "endpoints", v |-> EmptyObj],
   [k |-> "path", v |-> Undef], [k |-> "dataSource", v |-> Undef],
   [k |-> "validation", v |-> Undef], [k |-> "loadProfiles", v |-> Undef],
   [k |-> "loadProfiles", v |-> SmokeOnly], [k |-> "dsPath", v |-> Undef],
   [k |-> "requestColumn", v |-> Undef],
   [k |-> "endpointName", v |-> S("refresh")],
   [k |-> "endpointName", v |-> S("constructor")],
   [k |-> "testType", v |-> S("stress")],
   [k |-> "testType", v |-> S("LOAD")]}

\* changes that leave the config valid
Variants ==
  {[k |-> "method", v |-> Undef], [k |-> "method", v |-> S("GET")],
   [k |-> "method", v |-> S("PUT")], [k |-> "method", v |-> S("TRACE")],
   [k |-> "baseUrl", v |-> Str(<<"https://x.io", "/">>)],
   [k |-> "path", v |-> S("login")], [k |-> "filter", v |-> Undef],
   [k |-> "headers", v |-> Undef], [k |-> "validation", v |-> EmptyObj],
   [k |-> "validation", v |-> TimedValidation],
   [k |-> "thinkTime", v |-> Num(0)], [k |-> "thinkTime", v |-> Num(2)],
   [k |-> "thresholds", v |-> SomeThresholds], [k |-> "second", v |-> Undef],
   [k |-> "endpointName", v |-> S("logout")],
   [k |-> "testType", v |-> S("smoke")],
   [k |-> "custom", v |-> CustomEndpointTest]}

Change(sc, o) == [sc EXCEPT ![o.k] = o.v]

Scenarios ==
  {BaseScenario}
  \cup {Change(BaseScenario, o) : o \in Defects \cup Variants}
  \cup {Change(Change(BaseScenario, o1), o2) :
          o1 \in Defects, o2 \in Defects \cup Variants}

DataSourceOf(sc) ==
  IF sc.dataSource = S("ok")
  THEN MkObj(<< <<(<<"type">>), S("csv")>>,
                <<(<<"path">>), sc.dsPath>>,
                <<(<<"requestColumn">>), sc.requestColumn>>,
                <<(<<"filterByEndpoint">>), sc.filter>> >>)
  ELSE sc.dataSource

LoginEndpoint(sc) ==
  MkObj(<< <<(<<"path">>), sc.path>>,
           <<(<<"method">>), sc.method>>,
           <<(<<"dataSource">>), DataSourceOf(sc)>>,
           <<(<<"headers">>), sc.headers>>,
           <<(<<"validation">>), sc.validation>>,
           <<(<<"thresholds">>), sc.thresholds>>,
           <<(<<"loadProfiles">>), sc.loadProfiles>>,
           <<(<<"thinkTime">>), sc.thinkTime>> >>)

LogoutEndpoint ==
  MkObj(<< <<(<<"path">>), Str(<<"/", "logout">>)>>,
           <<(<<"method">>), S("DELETE")>>,
           <<(<<"dataSource">>),
             MkObj(<< <<(<<"path">>), S("requests.csv")>>,
                      <<(<<"requestColumn">>), S("request_json")>> >>)>>,
           <<(<<"validation">>), MkObj(<< <<(<<"statusCode">>), Num(200)>> >>)>>,
           <<(<<"loadProfiles">>), BothProfiles>> >>)

\* the config document of a scenario, as JSON.parse of the file returns it
ConfigOf(sc) ==
  IF sc.doc # S("ok") THEN sc.doc
  ELSE MkObj(<<
         <<(<<"service">>),
           IF sc.service = S("ok")
           THEN MkObj(<< <<(<<"name">>), sc.name>>,
                         <<(<<"baseUrl">>), sc.baseUrl>>,
                         <<(<<"environment">>), S("staging")>> >>)
           ELSE sc.service>>,
         <<(<<"endpoints">>),
           IF sc.endpoints = S("ok")
           THEN MkObj(<< <<(<<"login">>), LoginEndpoint(sc)>>,
                         <<(<<"logout">>),
                           IF sc.second = S("ok") THEN LogoutEndpoint
                           ELSE Undef>> >>)
           ELSE sc.endpoints>> >>)

(***************************************************************************)
(* The CSV files init() can find, and the responses the server can give.   *)
(***************************************************************************)
Row(api, cell) ==
  MkObj(<< <<(<<"api_endpoint">>), api>>, <<(<<"request_json">>), cell>> >>)

LoginApi == Str(<<"/", "login">>)

Cell1 == Str(<<"{", Quote, "mobile", Quote, ":", Quote, "9", Quote, "}">>)
Cell2 == Str(<<"{", Quote, "mobile", Quote, ":", " ", "7", ",",
               Quote, "otp", Quote, ":", "null", "}">>)

Rows ==
  {Row(LoginApi, Cell1), Row(LoginApi, Cell2),
   Row(Str(<<"/", "login", "/", "v2">>), Cell1),
   Row(Str(<<"/", "pay">>), Cell1),
   Row(Undef, Cell2),
   Row(LoginApi, Undef),
   Row(LoginApi, Str(<<>>)),
   Row(LoginApi, Str(<<" ", " ">>)),
   Row(LoginApi, Str(<<"{", Quote, "mobile", Quote, ":">>)),
   Row(LoginApi, Str(<<"null">>))}

RECURSIVE SeqsUpTo(_, _)
SeqsUpTo(set, n) ==
  IF n = 0 THEN {<<>>}
  ELSE LET shorter == SeqsUpTo(set, n - 1)
       IN shorter \cup {Append(q, x) : q \in shorter, x \in set}

NoFile == [readable |-> FALSE, rows |-> <<>>]

Files ==
  {NoFile} \cup {[readable |-> TRUE, rows |-> rows] : rows \in SeqsUpTo(Rows, MaxRows)}

Response(status, body, duration) ==
  [status |-> Num(status), body |-> body, duration |-> Num(duration)]

NoResponse == [status |-> Undef, body |-> Undef, duration |-> Undef]

OkBody ==
  Str(<<"{", Quote, "success", Quote, ":", "true", ",", Quote, "data", Quote,
        ":", "{", Quote, "accessToken", Quote, ":", Quote, "xyz", Quote, "}",
        "}">>)

NoTokenBody ==
  Str(<<"{", Quote, "success", Quote, ":", "true", ",", Quote, "data", Quote,
        ":", "{", "}", "}">>)

NullTokenBody ==
  Str(<<"{", Quote, "success", Quote, ":", "true", ",", Quote, "data", Quote,
        ":", "{", Quote, "accessToken", Quote, ":", "null", "}", "}">>)

Responses ==
  {Response(200, OkBody, 50),
   Response(200, NoTokenBody, 50),
   Response(200, NullTokenBody, 50),
   Response(200, OkBody, 900),
   Response(500, Str(<<"Internal Server Error">>), 50),
   Response(0, Str(<<>>), 30000),
   Response(0, Null, 30000)}

\* the values Date.now() takes
Clock == {Num(7)}

(***************************************************************************)
(* The state.                                                              *)
(***************************************************************************)
VARIABLES
  config,       \* the config document the entry script read
  endpointName, \* the arguments of createTest
  testType,
  customClass,
  pc,           \* where the entry script, or the current iteration, stands
  err,          \* the last error raised
  test,         \* the Runner that createTest returned
  constructed,  \* how many times a Runner constructor ran
  options,      \* what getOptions returned
  registry,     \* the SharedArrays of the process, by name
  csv,          \* the file that init() read, kept until the first iteration
  opened,       \* how many times the CSV file was opened
  iter,         \* how many iterations of run() have started
  httpCount,    \* how many HTTP requests were dispatched
  hookLog,      \* the hooks that the current iteration has called, in order
  data,         \* the locals of run()
  payload,
  headers,
  url,
  request,      \* the request that makeRequest dispatched
  response,
  isValid,
  slept,        \* the argument of the iteration's sleep()
  call,         \* a method called on its own: its name and its arguments
  result,       \* what that call returned or raised
  vu            \* the virtual users: for each the locals of its run()

vars ==
  <<config, endpointName, testType, customClass, pc, err, test, constructed,
    options, registry, csv, opened, iter, httpCount, hookLog, data, payload,
    headers, url, request, response, isValid, slept, call, result, vu>>

\* what neither the entry script nor a method called on its own changes
inputs == <<config, endpointName, testType, customClass, vu>>
startup == <<test, constructed, options, registry, csv, opened>>
locals == <<data, payload, headers, url, request, response, isValid, slept>>

unit == <<call, result>>

NotRead == [readable |-> FALSE, rows |-> <<>>]

\* no method has been called on its own
NoCall == [op |-> "none"]

Init ==
  /\ \E sc \in Scenarios :
       /\ config \in {ConfigOf(sc)}
       /\ endpointName = sc.endpointName
       /\ testType = sc.testType
       /\ customClass = sc.custom
  /\ pc = "start"
  /\ err = NoError
  /\ test = NoTest
  /\ constructed = 0
  /\ options = Undef
  /\ registry = <<>>
  /\ csv = NotRead
  /\ opened = 0
  /\ iter = 0
  /\ httpCount = 0
  /\ hookLog = <<>>
  /\ data = Undef
  /\ payload = Undef
  /\ headers = Undef
  /\ url = Undef
  /\ request = NoRequest
  /\ response = NoResponse
  /\ isValid = Undef
  /\ slept = Undef
  /\ call = NoCall
  /\ result = NoCall
  /\ vu = <<>>

(***************************************************************************)
(* The entry script: createTest, getOptions, init.  An error raised here   *)
(* ends the script.                                                        *)
(***************************************************************************)
CreateTest ==
  /\ pc = "start"
  /\ \E r \in {CreateTestResult(config, endpointName, testType, customClass)} :
        /\ err' = r.err
        /\ test' = r.test
        /\ constructed' = constructed + r.constructed
        /\ pc' = IF r.err.raised THEN "aborted" ELSE "created"
  /\ UNCHANGED <<unit, inputs, options, registry, csv, opened, iter, httpCount,
                 hookLog, locals>>

GetOptions ==
  /\ pc = "created"
  /\ \E r \in {GetOptionsResult(test)} :
        /\ err' = r.err
        /\ options' = r.v
        /\ pc' = IF r.err.raised THEN "aborted" ELSE "optioned"
  /\ UNCHANGED <<unit, inputs, test, constructed, registry, csv, opened, iter,
                 httpCount, hookLog, locals>>

\* getOptions() called again, any number of times, before init, after it,
\* or between iterations; result holds what the last call returned
GetOptionsAgain ==
  /\ pc \in {"optioned", "ready"}
  /\ call' = [op |-> "getOptions"]
  /\ result' = GetOptionsResult(test)
  /\ UNCHANGED <<inputs, pc, err, startup, iter, httpCount, hookLog, locals>>

InitTest ==
  /\ pc = "optioned"
  /\ \E file \in Files :
       \E r \in {InitResult(test, file, registry)} :
          /\ err' = r.err
          /\ test' = r.test
          /\ registry' = r.registry
          /\ csv' = IF r.opened THEN file ELSE csv
          /\ opened' = opened + (IF r.opened THEN 1 ELSE 0)
          /\ pc' = IF r.err.raised THEN "aborted" ELSE "ready"
  /\ UNCHANGED <<unit, inputs, constructed, options, iter, httpCount, hookLog,
                 locals>>

(***************************************************************************)
(* run(): one action per hook.  The scheduler starts an iteration when the *)
(* previous one has returned or raised.                                    *)
(***************************************************************************)
SelectData ==
  /\ pc \in {"ready", "raised"}
  /\ iter < MaxIter
  /\ iter' = iter + 1
  /\ \E k \in 0..(RandomSteps - 1) :
       \E r \in {SelectDataResult(test, k)} :
          /\ err' = r.err
          /\ data' = r.v
          /\ pc' = IF r.err.raised THEN "raised" ELSE "selected"
  /\ hookLog' = <<"selectData">>
  /\ csv' = NotRead
  /\ payload' = Undef
  /\ headers' = Undef
  /\ url' = Undef
  /\ request' = NoRequest
  /\ response' = NoResponse
  /\ isValid' = Undef
  /\ slept' = Undef
  /\ UNCHANGED <<unit, inputs, test, constructed, options, registry, opened,
                 httpCount>>

PrepareRequestStep ==
  /\ pc = "selected"
  /\ \E now \in Clock : payload' = PrepareRequest(test, data, now)
  /\ hookLog' = Append(hookLog, "prepareRequest")
  /\ pc' = "prepared"
  /\ UNCHANGED <<unit, inputs, startup, err, iter, httpCount, data, headers, url,
                 request, response, isValid, slept>>

BuildHeadersStep ==
  /\ pc = "prepared"
  /\ headers' = BuildHeaders(test)
  /\ hookLog' = Append(hookLog, "buildHeaders")
  /\ pc' = "headersBuilt"
  /\ UNCHANGED <<unit, inputs, startup, err, iter, httpCount, data, payload, url,
                 request, response, isValid, slept>>

BuildUrlStep ==
  /\ pc = "headersBuilt"
  /\ url' = BuildUrl(test)
  /\ hookLog' = Append(hookLog, "buildUrl")
  /\ pc' = "urlBuilt"
  /\ UNCHANGED <<unit, inputs, startup, err, iter, httpCount, data, payload,
                 headers, request, response, isValid, slept>>

MakeRequest ==
  /\ pc = "urlBuilt"
  /\ hookLog' = Append(hookLog, "makeRequest")
  /\ \E r \in {MakeRequestResult(test, url, payload, headers)} :
        IF r.err.raised
        THEN /\ err' = r.err
             /\ pc' = "raised"
             /\ UNCHANGED <<request, response, httpCount>>
        ELSE /\ request' = r.req
             /\ httpCount' = httpCount + 1
             /\ \E resp \in Responses : response' = resp
             /\ pc' = "responded"
             /\ err' = err
  /\ UNCHANGED <<unit, inputs, startup, iter, data, payload, headers, url, isValid,
                 slept>>

\* run() calling handleError whatever validateResponse returned
ValidateResponseThenHandleError ==
  /\ pc = "responded"
  /\ hookLog' = Append(hookLog, "validateResponse")
  /\ \E r \in {ValidateResponseResult(test, response)} :
        IF r.err.raised
        THEN /\ err' = r.err
             /\ pc' = "raised"
             /\ isValid' = isValid
        ELSE /\ isValid' = r.v
             /\ pc' = "failed"
             /\ err' = err
  /\ UNCHANGED <<unit, inputs, startup, iter, httpCount, data, payload, headers,
                 url, request, response, slept>>

ValidateResponse ==
  /\ pc = "responded"
  /\ hookLog' = Append(hookLog, "validateResponse")
  /\ \E r \in {ValidateResponseResult(test, response)} :
        IF r.err.raised
        THEN /\ err' = r.err
             /\ pc' = "raised"
             /\ isValid' = isValid
        ELSE /\ isValid' = r.v
             /\ pc' = IF Truthy(r.v) THEN "checked" ELSE "failed"
             /\ err' = err
  /\ UNCHANGED <<unit, inputs, startup, iter, httpCount, data, payload, headers,
                 url, request, response, slept>>

\* handleError prints the status and the duration of the response
HandleError ==
  /\ pc = "failed"
  /\ hookLog' = Append(hookLog, "handleError")
  /\ pc' = "checked"
  /\ UNCHANGED <<unit, inputs, startup, err, iter, httpCount, locals>>

\* run() pausing as soon as the response is there
SleepAfterResponse ==
  /\ pc \in {"responded", "checked"}
  /\ hookLog' = Append(hookLog, "sleep")
  /\ slept' = GetThinkTime(test)
  /\ pc' = "ready"
  /\ UNCHANGED <<unit, inputs, startup, err, iter, httpCount, data, payload,
                 headers, url, request, response, isValid>>

Sleep ==
  /\ pc = "checked"
  /\ hookLog' = Append(hookLog, "sleep")
  /\ slept' = GetThinkTime(test)
  /\ pc' = "ready"
  /\ UNCHANGED <<unit, inputs, startup, err, iter, httpCount, data, payload,
                 headers, url, request, response, isValid>>

Next ==
  \/ CreateTest
  \/ GetOptions
  \/ GetOptionsAgain
  \/ InitTest
  \/ SelectData
  \/ PrepareRequestStep
  \/ BuildHeadersStep
  \/ BuildUrlStep
  \/ MakeRequest
  \/ ValidateResponse
  \/ HandleError
  \/ Sleep

Spec == Init /\ [][Next]_vars

(***************************************************************************)
(* The methods called on their own, each with arguments drawn from a small *)
(* set: call holds the method and its arguments, result what it returned.  *)
(***************************************************************************)
\* the entry script at its start, with the config of the README
UnitInit ==
  /\ config = ConfigOf(BaseScenario)
  /\ endpointName = BaseScenario.endpointName
  /\ testType = BaseScenario.testType
  /\ customClass = BaseScenario.custom
  /\ pc = "start"
  /\ err = NoError
  /\ test = NoTest
  /\ constructed = 0
  /\ options = Undef
  /\ registry = <<>>
  /\ csv = NotRead
  /\ opened = 0
  /\ iter = 0
  /\ httpCount = 0
  /\ hookLog = <<>>
  /\ data = Undef
  /\ payload = Undef
  /\ headers = Undef
  /\ url = Undef
  /\ request = NoRequest
  /\ response = NoResponse
  /\ isValid = Undef
  /\ slept = Undef
  /\ call = NoCall
  /\ result = NoCall
  /\ vu = <<>>

run == <<inputs, pc, err, startup, iter, httpCount, hookLog, locals>>

\* the values a caller can give where a string is expected
TextArgs(text) == {Undef, Null, Str(<<>>), text}

\* the files with at most one row
ShortFiles == {f \in Files : Len(f.rows) <= 1}

\* the name init() gives the SharedArray of the login endpoint
LoginArrayName == Str(<<"auth", "-", "/", "login", "-data">>)

\* CSVDataLoader.load(dataSourceConfig, sharedArrayName), in a process
\* where no SharedArray is held, or one of that name
LoadCall ==
  /\ call = NoCall
  /\ \E path \in TextArgs(S("requests.csv")),
        requestColumn \in TextArgs(S("request_json")),
        filterByEndpoint \in {Undef, LoginApi},
        name \in TextArgs(LoginArrayName),
        file \in ShortFiles,
        held \in {<<>>, (LoginArrayName.s :> Arr(<<Null>>))} :
       \E dataSourceConfig \in
            {MkObj(<< <<(<<"type">>), S("csv")>>,
                      <<(<<"path">>), path>>,
                      <<(<<"requestColumn">>), requestColumn>>,
                      <<(<<"filterByEndpoint">>), filterByEndpoint>> >>)} :
          /\ call' = [op |-> "load", dataSourceConfig |-> dataSourceConfig,
                      sharedArrayName |-> name, file |-> file,
                      registry |-> held]
          /\ result' = LoadResult(dataSourceConfig, name, file, held)
  /\ UNCHANGED run

\* rows with the api_endpoint values a filter has to tell apart
TaggedRows ==
  {Row(LoginApi, Cell1),
   Row(Str(<<"/", "login", "/", "v2">>), Cell1),
   Row(Str(<<"/", "api", "/", "login">>), Cell2),
   Row(Str(<<"/">>), Cell1),
   Row(Str(<<"/", "pay">>), Cell1),
   Row(Str(<<>>), Cell2),
   Row(Undef, Cell2)}

\* the filtering step of load: _filterByEndpoint when filterByEndpoint is set
FilterCall ==
  /\ call = NoCall
  /\ \E filterByEndpoint \in TextArgs(LoginApi),
        rows \in SeqsUpTo(TaggedRows, MaxRows) :
       /\ call' = [op |-> "filter", filterByEndpoint |-> filterByEndpoint,
                   rows |-> rows]
       /\ result' = RowsToParse(filterByEndpoint, rows)
  /\ UNCHANGED run

\* validation configs: each entry present or absent, with the values the
\* schema allows
ValidationConfigs ==
  {EmptyObj, FullValidation, TimedValidation,
   PutOwn(FullValidation, <<"maxDuration">>, Num(500)),
   MkObj(<< <<(<<"requiredFields">>),
              Arr(<<S("success"), S("success")>>)>> >>),
   MkObj(<< <<(<<"successField">>), S("success")>> >>),
   MkObj(<< <<(<<"successField">>), S("success")>>,
            <<(<<"successValue">>), Bool(FALSE)>> >>),
   MkObj(<< <<(<<"statusCode">>), Num(200)>>,
            <<(<<"successField">>), S("status")>>,
            <<(<<"successValue">>), Num(200)>> >>)}

FailureBody ==
  Str(<<"{", Quote, "success", Quote, ":", "false", "}">>)

StatusBody ==
  Str(<<"{", Quote, "status", Quote, ":", "200", "}">>)

\* the responses of the iterations, and some more
ResponsesToValidate ==
  Responses
  \cup {Response(200, FailureBody, 50), Response(200, StatusBody, 50),
        Response(500, StatusBody, 50), Response(0, OkBody, 0),
        Response(200, Str(<<"<html>">>), 50),
        Response(200, Str(<<"{", Quote, "success", Quote, ":">>), 900)}

\* new RequestValidator(validationConfig).validate(response)
ValidateCall ==
  /\ call = NoCall
  /\ \E validationConfig \in ValidationConfigs, r \in ResponsesToValidate :
       /\ call' = [op |-> "validate", config |-> validationConfig,
                   response |-> r]
       /\ result' = ValidateResult(NewRequestValidator(validationConfig), r)
  /\ UNCHANGED run

\* check(response, checks): what each of the checks returns
CheckResults(validator, r) ==
  With(BuildChecks(validator),
       LAMBDA checks :
         [i \in 1..Len(checks) |->
            [label |-> checks[i].label, kind |-> checks[i].kind,
             passes |-> CheckPasses(checks[i], r)]])

\* the checks of _buildChecks, each applied to the response
ChecksCall ==
  /\ call = NoCall
  /\ \E validationConfig \in ValidationConfigs, r \in ResponsesToValidate :
       /\ call' = [op |-> "checks", config |-> validationConfig,
                   response |-> r]
       /\ result' = CheckResults(NewRequestValidator(validationConfig), r)
  /\ UNCHANGED run

\* parsed bodies, and the values a caller may pass for one
ParsedBodies ==
  {Undef, Null, EmptyObj, S("abc"),
   MkObj(<< <<(<<"data">>), MkObj(<< <<(<<"token">>), S("abc")>> >>)>> >>),
   MkObj(<< <<(<<"data">>), EmptyObj>> >>),
   MkObj(<< <<(<<"data">>), Null>> >>),
   MkObj(<< <<(<<"data">>), S("abc")>> >>),
   MkObj(<< <<(<<"data">>), Num(7)>> >>),
   MkObj(<< <<(<<"a">>),
              MkObj(<< <<(<<"b">>),
                         MkObj(<< <<(<<"c">>), Bool(FALSE)>> >>)>> >>)>> >>)}

DotPaths ==
  {<<"data">>, <<"data", ".", "token">>, <<"data", ".", "missing">>,
   <<"data", ".", "token", ".", "x">>, <<"data", ".", "token", ".", "length">>,
   <<"data", ".", "length">>, <<"a", ".", "b">>, <<"a", ".", "b", ".", "c">>,
   <<"a", ".", "x", ".", "c">>}

\* _getNestedField(obj, path)
GetNestedFieldCall ==
  /\ call = NoCall
  /\ \E obj \in ParsedBodies, path \in DotPaths :
       /\ call' = [op |-> "getNestedField", obj |-> obj, path |-> path]
       /\ result' = GetNestedField(obj, path)
  /\ UNCHANGED run

\* the most slashes a baseUrl ends with and a path starts with
MaxSlashes == 2

Slashes(n) == [i \in 1..n |-> "/"]

\* a test whose configs hold what the hook under call reads
TestWith(serviceKey, serviceValue, endpointKey, endpointValue) ==
  NewBaseLoadTest("BaseLoadTest",
                  MkObj(<< <<serviceKey, serviceValue>> >>),
                  MkObj(<< <<endpointKey, endpointValue>> >>),
                  S("load"))

\* buildUrl()
BuildUrlCall ==
  /\ call = NoCall
  /\ \E trailing \in 0..MaxSlashes, leading \in 0..MaxSlashes,
        rest \in {<<"auth/v2/login">>, <<"login">>} :
       \E baseUrl \in {Str(<<"https://x.io">> \o Slashes(trailing))},
          path \in {Str(Slashes(leading) \o rest)} :
          /\ call' = [op |-> "buildUrl", baseUrl |-> baseUrl, path |-> path]
          /\ result' = BuildUrl(TestWith(<<"baseUrl">>, baseUrl,
                                         <<"path">>, path))
  /\ UNCHANGED run

\* the spellings of a method in a config; none, and the empty string
Methods ==
  {Undef, Str(<<>>), S("POST"), S("post"), S("Post"), S("GET"), S("get"),
   S("Get"), S("PUT"), S("put"), S("PATCH"), S("patch"), S("DELETE"),
   S("delete"), S("Delete"), S("TRACE"), S("trace"), S("HEAD"), S("OPTIONS")}

\* payloads as prepareRequest returns them
Payloads ==
  {EmptyObj,
   MkObj(<< <<(<<"mobile">>), S("9")>> >>),
   MkObj(<< <<(<<"mobile">>), Num(7)>>, <<(<<"otp">>), Null>> >>),
   MkObj(<< <<(<<"q">>), Str(<<"a", "&", "b">>)>>,
            <<(<<"mobile">>), S("9")>> >>)}

HeaderSets ==
  {EmptyObj, MkObj(<< <<(<<"X-Client">>), S("k6")>> >>)}

LoginUrl == Str(<<"https://x.io", "/", "login">>)

\* makeRequest(url, payload, headers) of a test whose endpoint has the method
MakeRequestCall ==
  /\ call = NoCall
  /\ \E method \in Methods, p \in Payloads, h \in HeaderSets :
       /\ call' = [op |-> "makeRequest", method |-> method, url |-> LoginUrl,
                   payload |-> p, headers |-> h]
       /\ result' = MakeRequestResult(
                      TestWith(<<"baseUrl">>, S("https://x.io"),
                               <<"method">>, method),
                      LoginUrl, p, h)
  /\ UNCHANGED run

\* makeRequest(endpoint, payload, headers, method) of the helper; a method
\* left out is 'POST'
CommonMakeRequestCall ==
  /\ call = NoCall
  /\ \E method \in {S("POST"), S("GET"), S("get"), S("PUT")},
        p \in Payloads, h \in HeaderSets :
       /\ call' = [op |-> "commonMakeRequest", method |-> method,
                   endpoint |-> S("login"), payload |-> p, headers |-> h]
       /\ result' = CommonMakeRequest(S("login"), p, h, method)
  /\ UNCHANGED run

\* threshold configs: each of the four entries present or absent
ThresholdConfigs ==
  {MkObj(<< <<(<<"p95Duration">>), p95>>, <<(<<"p99Duration">>), p99>>,
            <<(<<"errorRate">>), errorRate>>,
            <<(<<"checkPassRate">>), checkPassRate>> >>) :
     p95 \in {Undef, Num(500)}, p99 \in {Undef, Num(700)},
     errorRate \in {Undef, Num(0), Num(1)},
     checkPassRate \in {Undef, Num(1)}}

\* _buildThresholds() of a test whose endpoint has the thresholds, or none
BuildThresholdsCall ==
  /\ call = NoCall
  /\ \E thresholds \in ThresholdConfigs \cup {Undef} :
       /\ call' = [op |-> "buildThresholds", thresholds |-> thresholds]
       /\ result' = BuildThresholds(TestWith(<<"baseUrl">>, S("https://x.io"),
                                             <<"thresholds">>, thresholds))
  /\ UNCHANGED run

\* the test createTest returns for the config of the README
ReadmeTest ==
  CreateTestResult(ConfigOf(BaseScenario), BaseScenario.endpointName,
                   BaseScenario.testType, BaseScenario.custom).test

\* the longest dataset selectData is called with
MaxData == 3

\* a test that init() gave a dataset of n different entries
TestWithData(n) ==
  [ReadmeTest EXCEPT
     !.requestData =
        Arr([i \in 1..n |-> MkObj(<< <<(<<"mobile">>), Num(i)>> >>)])]

\* selectData(), Math.random() returning k / RandomSteps
SelectDataCall ==
  /\ call = NoCall
  /\ \E n \in 1..MaxData, k \in 0..(RandomSteps - 1) :
       /\ call' = [op |-> "selectData", requestData |-> TestWithData(n).requestData,
                   random |-> k]
       /\ result' = SelectDataResult(TestWithData(n), k)
  /\ UNCHANGED run

\* files of one and of two rows for the login endpoint
OneRowFile == [readable |-> TRUE, rows |-> <<Row(LoginApi, Cell1)>>]
TwoRowFile ==
  [readable |-> TRUE, rows |-> <<Row(LoginApi, Cell1), Row(LoginApi, Cell2)>>]

\* a second endpoint of the service of the README: another method, and
\* its own data source
SecondEndpoint(path, dsPath, requestColumn, filterByEndpoint) ==
  LoginEndpoint([BaseScenario EXCEPT
                   !.path = path, !.method = S("GET"), !.dsPath = dsPath,
                   !.requestColumn = requestColumn,
                   !.filter = filterByEndpoint])

\* the file of the second endpoint, its requests in the column payload
PayloadFile ==
  [readable |-> TRUE,
   rows |-> <<MkObj(<< <<(<<"api_endpoint">>), Str(<<"/", "pay">>)>>,
                       <<(<<"payload">>), Cell2>> >>)>>]

\* init() of the test of the README, then init() of a test of the second
\* endpoint in the same process
InitTwiceCall ==
  /\ call = NoCall
  /\ \E path \in {LoginApi, Str(<<"/", "pay">>)},
        dsPath \in {S("requests.csv"), S("payments.csv")},
        requestColumn \in {S("request_json"), S("payload")},
        filterByEndpoint \in {Undef, LoginApi, Str(<<"/", "pay">>)},
        file1 \in {OneRowFile, TwoRowFile},
        file2 \in {PayloadFile, NoFile} :
       \E second \in {NewBaseLoadTest(
                        "BaseLoadTest",
                        Get(ConfigOf(BaseScenario), <<"service">>),
                        SecondEndpoint(path, dsPath, requestColumn,
                                       filterByEndpoint),
                        S("load"))} :
          \E r1 \in {InitResult(ReadmeTest, file1, <<>>)} :
             /\ call' = [op |-> "initTwice", first |-> ReadmeTest,
                         second |-> second, file1 |-> file1, file2 |-> file2]
             /\ result' = [first |-> r1,
                           second |-> InitResult(second, file2, r1.registry)]
  /\ UNCHANGED run

\* the values a JSON body can give a field; undefined for a field left out
FieldValues ==
  {Undef, Null, Bool(FALSE), Bool(TRUE), Num(0), Num(7), Str(<<>>), S("xyz"),
   EmptyObj}

\* the check of the required field data.accessToken, or of accessToken,
\* applied to a body that gives the field the value
FieldCheckCall ==
  /\ call = NoCall
  /\ \E value \in FieldValues, nested \in BOOLEAN :
       \E inner \in {MkObj(<< <<(<<"accessToken">>), value>> >>)} :
          \E body \in {Str(Stringify(
                         IF nested
                         THEN MkObj(<< <<(<<"data">>), inner>> >>)
                         ELSE inner))},
             fieldPath \in {IF nested THEN Str(<<"data", ".", "accessToken">>)
                            ELSE S("accessToken")} :
             /\ call' = [op |-> "fieldCheck", value |-> value,
                         fieldPath |-> fieldPath, body |-> body]
             /\ result' = CheckResults(
                            NewRequestValidator(
                              MkObj(<< <<(<<"requiredFields">>),
                                         Arr(<<fieldPath>>)>> >>)),
                            Response(200, body, 50))
  /\ UNCHANGED run

UnitNext ==
  \/ LoadCall
  \/ FilterCall
  \/ ValidateCall
  \/ ChecksCall
  \/ GetNestedFieldCall
  \/ BuildUrlCall
  \/ MakeRequestCall
  \/ CommonMakeRequestCall
  \/ BuildThresholdsCall
  \/ SelectDataCall
  \/ InitTwiceCall
  \/ FieldCheckCall

Units == UnitInit /\ [][UnitNext]_vars

(***************************************************************************)
(* Virtual users.  k6 runs the default function, test.run(), in several    *)
(* virtual users at once and gives no order between their steps; each has  *)
(* its own locals, and all read the test and its SharedArray.  The entry   *)
(* script has ended: with the config of the README, and with init() either *)
(* done or left out.                                                       *)
(***************************************************************************)
MaxWorkers == 2

Workers == 1..MaxWorkers

\* the responses a virtual user may receive
WorkerResponses ==
  {Response(200, OkBody, 50),
   Response(500, Str(<<"Internal Server Error">>), 50)}

\* a virtual user between two iterations
IdleWorker ==
  [pc |-> "idle", err |-> NoError, data |-> Undef, payload |-> Undef,
   headers |-> Undef, url |-> Undef, request |-> NoRequest,
   response |-> NoResponse, isValid |-> Undef]

WorkersInit ==
  /\ config = ConfigOf(BaseScenario)
  /\ endpointName = BaseScenario.endpointName
  /\ testType = BaseScenario.testType
  /\ customClass = BaseScenario.custom
  /\ pc = "running"
  /\ err = NoError
  /\ constructed = 1
  /\ options = GetOptionsResult(ReadmeTest).v
  /\ \/ /\ test = ReadmeTest
        /\ registry = <<>>
        /\ csv = NotRead
        /\ opened = 0
     \/ \E file \in {OneRowFile, TwoRowFile} :
          \E r \in {InitResult(ReadmeTest, file, <<>>)} :
             /\ test = r.test
             /\ registry = r.registry
             /\ csv = file
             /\ opened = 1
  /\ iter = 0
  /\ httpCount = 0
  /\ hookLog = <<>>
  /\ data = Undef
  /\ payload = Undef
  /\ headers = Undef
  /\ url = Undef
  /\ request = NoRequest
  /\ response = NoResponse
  /\ isValid = Undef
  /\ slept = Undef
  /\ call = NoCall
  /\ result = NoCall
  /\ vu = [w \in Workers |-> IdleWorker]

\* what the steps of a virtual user leave alone
script ==
  <<config, endpointName, testType, customClass, pc, err, constructed,
    options, registry, csv, opened, iter, httpCount, hookLog, locals, unit>>

\* run() step 1
WSelectData(w) ==
  /\ vu[w].pc \in {"idle", "raised"}
  /\ \E k \in 0..(RandomSteps - 1) :
       \E r \in {SelectDataResult(test, k)} :
          vu' = [vu EXCEPT ![w] =
                   [IdleWorker EXCEPT
                      !.err = r.err, !.data = r.v,
                      !.pc = IF r.err.raised THEN "raised" ELSE "selected"]]
  /\ UNCHANGED <<test, script>>

\* prepareRequest handing back the entry of the dataset with a timestamp
\* written into it
WPrepareRequestInPlace(w) ==
  /\ vu[w].pc = "selected"
  /\ \E now \in Clock :
       \E stamped \in {SpreadWith(vu[w].data, <<"timestamp">>, now)} :
          /\ vu' = [vu EXCEPT ![w].payload = stamped, ![w].pc = "prepared"]
          /\ test' = [test EXCEPT !.requestData =
                        Arr([i \in 1..Len(test.requestData.a) |->
                               IF test.requestData.a[i] = vu[w].data
                               THEN stamped ELSE test.requestData.a[i]])]
  /\ UNCHANGED script

\* run() step 2
WPrepareRequest(w) ==
  /\ vu[w].pc = "selected"
  /\ \E now \in Clock :
       vu' = [vu EXCEPT ![w].payload = PrepareRequest(test, vu[w].data, now),
                        ![w].pc = "prepared"]
  /\ UNCHANGED <<test, script>>

\* run() step 3
WBuild(w) ==
  /\ vu[w].pc = "prepared"
  /\ vu' = [vu EXCEPT ![w].headers = BuildHeaders(test),
                      ![w].url = BuildUrl(test),
                      ![w].pc = "built"]
  /\ UNCHANGED <<test, script>>

\* run() calling makeRequest although selectData raised
WMakeRequestAnyway(w) ==
  /\ vu[w].pc \in {"built", "raised"}
  /\ \E r \in {MakeRequestResult(test, BuildUrl(test), vu[w].payload,
                                 BuildHeaders(test))} :
        \E resp \in WorkerResponses :
           vu' = [vu EXCEPT ![w].request = r.req,
                            ![w].response = resp,
                            ![w].pc = "responded"]
  /\ UNCHANGED <<test, script>>

\* run() step 4
WMakeRequest(w) ==
  /\ vu[w].pc = "built"
  /\ \E r \in {MakeRequestResult(test, vu[w].url, vu[w].payload,
                                 vu[w].headers)} :
        IF r.err.raised
        THEN vu' = [vu EXCEPT ![w].err = r.err, ![w].pc = "raised"]
        ELSE \E resp \in WorkerResponses :
                vu' = [vu EXCEPT ![w].request = r.req,
                                 ![w].response = resp,
                                 ![w].pc = "responded"]
  /\ UNCHANGED <<test, script>>

\* run() step 5
WValidateResponse(w) ==
  /\ vu[w].pc = "responded"
  /\ \E r \in {ValidateResponseResult(test, vu[w].response)} :
        IF r.err.raised
        THEN vu' = [vu EXCEPT ![w].err = r.err, ![w].pc = "raised"]
        ELSE vu' = [vu EXCEPT ![w].isValid = r.v,
                              ![w].pc = IF Truthy(r.v) THEN "checked"
                                        ELSE "failed"]
  /\ UNCHANGED <<test, script>>

\* run() step 6
WHandleError(w) ==
  /\ vu[w].pc = "failed"
  /\ vu' = [vu EXCEPT ![w].pc = "checked"]
  /\ UNCHANGED <<test, script>>

\* run() step 7; the locals end with the call
WSleep(w) ==
  /\ vu[w].pc = "checked"
  /\ vu' = [vu EXCEPT ![w] = IdleWorker]
  /\ UNCHANGED <<test, script>>

WorkersNext ==
  \E w \in Workers :
     \/ WSelectData(w)
     \/ WPrepareRequest(w)
     \/ WBuild(w)
     \/ WMakeRequest(w)
     \/ WValidateResponse(w)
     \/ WHandleError(w)
     \/ WSleep(w)

VirtualUsers == WorkersInit /\ [][WorkersNext]_vars

(***************************************************************************)
(* What the properties speak of: the config document and the file as the   *)
(* entry script received them, read without the code under test.           *)
(***************************************************************************)
Count(seq, x) == Cardinality({i \in 1..Len(seq) : seq[i] = x})

ServiceOf == OptGet(config, <<"service">>)
EndpointsOf == OptGet(config, <<"endpoints">>)

\* the names of the endpoints that config.endpoints defines
DefinedEndpoints == ObjectKeys(EndpointsOf)

IsDefinedEndpoint ==
  \E i \in 1..Len(DefinedEndpoints) : DefinedEndpoints[i] = ToStr(endpointName)

\* config.endpoints[endpointName] when endpointName is a key of it
SelectedEndpoint ==
  IF IsDefinedEndpoint THEN EndpointsOf.f[ToStr(endpointName)] ELSE Undef

\* the config has a service with a name and a base URL, and endpoints
StructurallyValid ==
  /\ Truthy(OptGet(ServiceOf, <<"name">>))
  /\ Truthy(OptGet(ServiceOf, <<"baseUrl">>))
  /\ Len(DefinedEndpoints) > 0

SupportedTestTypes == {S("smoke"), S("load")}

\* the required fields, each with the value the config gives it and the
\* text that names it in a message
RequiredFields ==
  {[value |-> OptGet(ServiceOf, <<"name">>),
    named |-> <<"service", ".", "name">>],
   [value |-> OptGet(ServiceOf, <<"baseUrl">>),
    named |-> <<"service", ".", "baseUrl">>],
   [value |-> OptGet(SelectedEndpoint, <<"path">>),
    named |-> <<".", "path">>],
   [value |-> OptGet(SelectedEndpoint, <<"dataSource">>),
    named |-> <<".", "dataSource">>],
   [value |-> OptGet(SelectedEndpoint, <<"validation">>),
    named |-> <<".", "validation">>],
   [value |-> OptGet(SelectedEndpoint, <<"loadProfiles">>),
    named |-> <<".", "loadProfiles">>]}

MissingFields == {f \in RequiredFields : f.value = Undef}

\* nothing that createTest or getOptions asks of the config is wrong
ConfigErrorFree ==
  /\ StructurallyValid
  /\ testType \in SupportedTestTypes
  /\ IsDefinedEndpoint
  /\ \A f \in RequiredFields : Truthy(f.value)
  /\ Truthy(OptGet(OptGet(SelectedEndpoint, <<"loadProfiles">>),
                   ToStr(testType)))

SupportedMethods ==
  {<<"GET">>, <<"POST">>, <<"PUT">>, <<"PATCH">>, <<"DELETE">>}

\* the selected endpoint names a method that is none of the five
UnsupportedMethod ==
  LET m == OptGet(SelectedEndpoint, <<"method">>)
  IN Truthy(m) /\ ToUpperCase(ToStr(m)) \notin SupportedMethods

IsUnsupportedMethodError(e) ==
  e.raised /\ StartsWith(e.msg, <<"BaseLoadTest: Unsupported HTTP method: ">>)

\* the iteration at hand received a response that fails a configured check
ResponseFailsACheck ==
  /\ response # NoResponse
  /\ ~CheckAll(response, BuildChecks(test.validator))

(***************************************************************************)
(* The properties.                                                         *)
(***************************************************************************)
\* C1: an iteration of the default Runner whose response fails at least one
\* configured check, a timed-out response with a null or empty body
\* included, does not raise: validate returns false, handleError is called
\* once, the think-time pause is performed and the Runner is ready for the
\* next iteration.
C1_FailedCheckNeverRaises ==
  (test.cls = "BaseLoadTest" /\ ResponseFailsACheck)
  => /\ pc # "raised"
     /\ pc \in {"failed", "checked", "ready"} => isValid = Bool(FALSE)
     /\ pc = "checked" => Count(hookLog, "handleError") = 1
     /\ pc = "ready" => /\ Count(hookLog, "handleError") = 1
                        /\ hookLog[Len(hookLog)] = "sleep"
                        /\ slept # Undef

\* C2: no HTTP request is dispatched and no iteration starts in an execution
\* where a configuration error, an unreadable CSV file or an empty dataset
\* occurs: the error is raised by createTest, getOptions or init, and an
\* execution that starts an iteration has none of them.
C2_StartupErrorsPrecedeTraffic ==
  /\ pc = "aborted" => (err.raised /\ httpCount = 0 /\ iter = 0)
  /\ (pc = "ready" /\ iter = 0) => csv.readable
  /\ (iter > 0 \/ httpCount > 0)
       => /\ ConfigErrorFree
          /\ test.requestData.t = "array"
          /\ Len(test.requestData.a) >= 1

\* C2's case: init found no readable file, and the script ended there
C2_Witness ==
  /\ pc = "aborted"
  /\ opened = 1
  /\ ~csv.readable
  /\ StartsWith(err.msg, <<"CSVDataLoader: Failed to read CSV file at ">>)

\* C3, as the spec states it: an endpoint with an unsupported HTTP method
\* fails at startup, before any iteration of run() begins.
C3_UnsupportedMethodFailsAtStartup == UnsupportedMethod => iter = 0

\* C3, amended: createTest, getOptions and init never raise the
\* unsupported-method error; with an unsupported method every iteration
\* raises it in makeRequest, and no request is ever dispatched.
C3_UnsupportedMethodFailsInMakeRequest ==
  /\ pc = "aborted" => ~IsUnsupportedMethodError(err)
  /\ UnsupportedMethod
       => /\ httpCount = 0
          /\ request = NoRequest
          /\ pc \notin {"responded", "failed", "checked"}
          /\ pc = "ready" => iter = 0
          /\ pc = "raised" => /\ IsUnsupportedMethodError(err)
                              /\ hookLog[Len(hookLog)] = "makeRequest"
  /\ IsUnsupportedMethodError(err) => UnsupportedMethod

\* C3's case: the second iteration of a Runner with an unsupported method
\* has raised in makeRequest
C3_Witness ==
  /\ UnsupportedMethod
  /\ iter = 2
  /\ pc = "raised"
  /\ IsUnsupportedMethodError(err)

\* C4: when exactly one required field (service.name, service.baseUrl, the
\* selected endpoint's path, dataSource, validation or loadProfiles) is
\* missing from an otherwise valid config, createTest fails with a message
\* that names the field, and no Runner constructor is invoked.
C4_MissingFieldIsNamed ==
  (/\ pc # "start"
   /\ ServiceOf.t = "object"
   /\ IsDefinedEndpoint
   /\ SelectedEndpoint.t = "object"
   /\ testType \in SupportedTestTypes
   /\ Cardinality(MissingFields) = 1
   /\ \A f \in RequiredFields \ MissingFields : Truthy(f.value))
  => /\ pc = "aborted"
     /\ err.raised
     /\ \A f \in MissingFields : Includes(err.msg, f.named)
     /\ EndsWith(err.msg, <<" is required">>)
     /\ constructed = 0
     /\ test = NoTest

\* C4's case: validation is the one missing field, a custom class was given
C4_Witness ==
  /\ pc = "aborted"
  /\ IsDefinedEndpoint
  /\ customClass = CustomEndpointTest
  /\ \E f \in MissingFields : f.named = <<".", "validation">>
  /\ Cardinality(MissingFields) = 1
  /\ constructed = 0

\* C5: with a structurally valid config and a testType that is neither
\* "smoke" nor "load", createTest fails with the invalid-test-type error
\* and constructs no Runner, whether or not endpointName is an endpoint.
C5_InvalidTestTypeRejected ==
  (pc # "start" /\ StructurallyValid /\ testType \notin SupportedTestTypes)
  => /\ pc = "aborted"
     /\ err = Error(<<"TestFactory: Invalid test type '">> \o ToStr(testType)
                    \o <<"'. Must be 'smoke' or 'load'.">>)
     /\ constructed = 0
     /\ test = NoTest

\* C5's case: the test type is invalid and the endpoint does not exist
C5_Witness ==
  /\ pc = "aborted"
  /\ StructurallyValid
  /\ testType = S("stress")
  /\ ~IsDefinedEndpoint
  /\ StartsWith(err.msg, <<"TestFactory: Invalid test type '">>)

\* C6: with a valid config and an endpointName that is no key of
\* config.endpoints, createTest fails with a message that holds the name of
\* every endpoint config.endpoints defines, and constructs no Runner.
C6_UnknownEndpointListsEndpoints ==
  (/\ pc # "start"
   /\ StructurallyValid
   /\ testType \in SupportedTestTypes
   /\ ~IsDefinedEndpoint)
  => /\ pc = "aborted"
     /\ err.raised
     /\ \A i \in 1..Len(DefinedEndpoints) : Includes(err.msg, DefinedEndpoints[i])
     /\ Len(DefinedEndpoints) = 2
          => Includes(err.msg, DefinedEndpoints[1] \o <<", ">>
                               \o DefinedEndpoints[2])
     /\ constructed = 0

\* the class createTest is to instantiate
ExpectedClass ==
  IF customClass = Null THEN "BaseLoadTest" ELSE customClass.name

\* C7: when every validation of createTest passes, createTest constructs
\* exactly one Runner, of the caller's class when one is given and of
\* BaseLoadTest otherwise, from (config.service, config.endpoints[
\* endpointName], testType); its requestData is null until init().
C7_OneRunnerUninitialized ==
  /\ constructed <= 1
  /\ (pc # "start" /\ StructurallyValid /\ testType \in SupportedTestTypes
      /\ IsDefinedEndpoint
      /\ \A f \in RequiredFields : Truthy(f.value))
     => /\ constructed = 1
        /\ test.cls = ExpectedClass
        /\ test.serviceConfig = ServiceOf
        /\ test.endpointConfig = SelectedEndpoint
        /\ test.testType = testType
        /\ pc \in {"created", "optioned"} => test.requestData = Null
        /\ (pc = "aborted" /\ opened = 0) => test.requestData = Null

\* C7's case: createTest returned a Runner of the caller's class, and init
\* has not run
C7_Witness ==
  /\ pc = "optioned"
  /\ customClass = CustomEndpointTest
  /\ test.cls = "CustomEndpointTest"
  /\ constructed = 1
  /\ test.endpointConfig = SelectedEndpoint
  /\ test.requestData = Null

(***************************************************************************)
(* The file that init() read, against the Dataset the Runner holds.        *)
(***************************************************************************)
DataSourceConfig == OptGet(SelectedEndpoint, <<"dataSource">>)
EndpointFilter == OptGet(DataSourceConfig, <<"filterByEndpoint">>)
RequestColumn == ToStr(OptGet(DataSourceConfig, <<"requestColumn">>))

\* the text in the request column of a row
Payload(row) == OptGet(row, RequestColumn)

\* the row carries the endpoint tag, when the config filters by one
PassesFilter(row) ==
  \/ ~Truthy(EndpointFilter)
  \/ LET api == OptGet(row, <<"api_endpoint">>)
     IN api.t = "string" /\ api.s # <<>> /\ Includes(api.s, ToStr(EndpointFilter))

\* the request column of the row holds a JSON text
HoldsJson(row) == Payload(row).t = "string" /\ JsonParse(Payload(row)).ok

Decoded(row) == JsonParse(Payload(row)).v

\* init() read a file and returned, and no iteration has started
Loaded == pc = "ready" /\ iter = 0 /\ csv.readable

\* init() read a file and raised
LoadFailed == pc = "aborted" /\ opened = 1 /\ csv.readable

Dataset == test.requestData.a

\* the rows that pass the filter and hold valid JSON, decoded, in row order
ValidRows ==
  LET kept == SelectSeq(csv.rows, LAMBDA row : PassesFilter(row) /\ HoldsJson(row))
  IN [i \in 1..Len(kept) |-> Decoded(kept[i])]

\* C8: of the rows of the file, the M that pass the endpoint filter and
\* hold a valid JSON value in the request column make the Dataset, in row
\* order; the other rows are dropped without raising.
C8_DatasetIsTheValidRows ==
  /\ Loaded => Dataset = ValidRows
  /\ LoadFailed => Len(ValidRows) = 0

C10_DatasetNeverEmpty ==
  /\ ((Loaded \/ LoadFailed) /\ Len(ValidRows) = 0)
       => /\ pc = "aborted"
          /\ StartsWith(err.msg, <<"CSVDataLoader: No valid requests found in ">>)
  /\ pc \notin {"start", "created", "optioned", "aborted"}
       => /\ test.requestData.t = "array"
          /\ Len(Dataset) >= 1

\* C10's case: the file had rows, none of them usable, and init() raised
C10_Witness ==
  /\ LoadFailed
  /\ Len(csv.rows) = 2
  /\ Len(ValidRows) = 0
  /\ StartsWith(err.msg, <<"CSVDataLoader: No valid requests found in ">>)

(***************************************************************************)
(* Properties of the methods called on their own.                          *)
(***************************************************************************)
MissingOrEmpty(v) == v \in {Undef, Null, Str(<<>>)}

\* the arguments of a call of load that lack a path, a request column or a
\* name
LoadArgsIncomplete ==
  \/ MissingOrEmpty(OptGet(call.dataSourceConfig, <<"path">>))
  \/ MissingOrEmpty(OptGet(call.dataSourceConfig, <<"requestColumn">>))
  \/ MissingOrEmpty(call.sharedArrayName)

\* C11: CSVDataLoader.load fails with a configuration error when
\* dataSourceConfig.path, dataSourceConfig.requestColumn or the name of the
\* dataset is missing or empty; the CSV file is then not opened and no
\* shared dataset is registered.
C11_LoadRejectsIncompleteArgs ==
  (call.op = "load" /\ LoadArgsIncomplete)
  => /\ result.err.raised
     /\ StartsWith(result.err.msg, <<"CSVDataLoader: ">>)
     /\ EndsWith(result.err.msg, <<" is required">>)
     /\ ~result.opened
     /\ result.registry = call.registry
     /\ result.v = Undef

\* C11's case: only the name is empty, the file is there, no array is held
C11_Witness ==
  /\ call.op = "load"
  /\ call.sharedArrayName = Str(<<>>)
  /\ Truthy(OptGet(call.dataSourceConfig, <<"path">>))
  /\ Truthy(OptGet(call.dataSourceConfig, <<"requestColumn">>))
  /\ call.file.readable
  /\ call.registry = <<>>
  /\ result.err = Error(<<"CSVDataLoader: ", "sharedArrayName", " is required">>)

\* the api_endpoint of the row is a non-empty text that is the filter or
\* has it as a part
CarriesTag(row, filter) ==
  LET api == OptGet(row, <<"api_endpoint">>)
  IN /\ api.t = "string"
     /\ api.s # <<>>
     /\ \E i \in 1..Len(api.s) :
          \E j \in i..Len(api.s) : SubSeq(api.s, i, j) = filter.s

\* C12: when filterByEndpoint is set, the rows retained are those with a
\* non-empty api_endpoint that equals the filter or contains it, in their
\* order; when it is not set, no row is removed.
C12_FilterRetainsTaggedRows ==
  call.op = "filter"
  => IF MissingOrEmpty(call.filterByEndpoint)
     THEN result = call.rows
     ELSE result = SelectSeq(call.rows,
                             LAMBDA row : CarriesTag(row, call.filterByEndpoint))

\* C12's case: of two rows the one whose tag contains the filter is kept,
\* the one whose tag is only a part of the filter is dropped
C12_Witness ==
  /\ call.op = "filter"
  /\ call.filterByEndpoint = LoginApi
  /\ Len(call.rows) = 2
  /\ OptGet(call.rows[1], <<"api_endpoint">>) = Str(<<"/">>)
  /\ OptGet(call.rows[2], <<"api_endpoint">>) = Str(<<"/", "api", "/", "login">>)
  /\ result = <<call.rows[2]>>

\* the body of the response is a JSON text whose value has, at the path, a
\* value that meets the test
BodyFieldMeets(r, path, Meets(_)) ==
  LET body == JsonParse(r.body)
  IN body.ok /\ Meets(GetNestedField(body.v, ToStr(path)))

\* every check that the entries of the validation config ask for holds
AllChecksHold(cfg, r) ==
  LET statusCode == OptGet(cfg, <<"statusCode">>)
      requiredFields == OptGet(cfg, <<"requiredFields">>)
      successField == OptGet(cfg, <<"successField">>)
      successValue == OptGet(cfg, <<"successValue">>)
      maxDuration == OptGet(cfg, <<"maxDuration">>)
      expected == IF successValue = Undef THEN Bool(TRUE) ELSE successValue
  IN /\ statusCode # Undef => StrictEq(r.status, statusCode)
     /\ requiredFields.t = "array"
          => \A i \in 1..Len(requiredFields.a) :
               BodyFieldMeets(r, requiredFields.a[i],
                              LAMBDA v : v # Undef /\ v # Null)
     /\ successField # Undef
          => BodyFieldMeets(r, successField, LAMBDA v : StrictEq(v, expected))
     /\ maxDuration # Undef => r.duration.n < maxDuration.n

\* C13: validate returns true if and only if every check derived from the
\* validation config holds for the response: the status check, one
\* presence check per required field, the check of successField against
\* successValue (true by default), and the check of the duration against
\* maxDuration.
C13_ValidateIsTheConjunction ==
  call.op = "validate"
  => ((~result.err.raised /\ result.v = Bool(TRUE))
      <=> AllChecksHold(call.config, call.response))

\* the body of the response is no JSON text
BodyIsNotJson(r) == r.body.t # "string" \/ ~JsonParse(r.body).ok

\* C14: for a response whose body is not valid JSON, every requiredFields
\* check and the successField check return false, and the status check
\* and the duration check return what the status and the duration alone
\* decide, as for a JSON body.
C14_NonJsonBodyFailsFieldChecks ==
  (call.op = "checks" /\ BodyIsNotJson(call.response))
  => \A i \in 1..Len(result) :
        CASE result[i].kind \in {"field", "success"} -> ~result[i].passes
          [] result[i].kind = "status" ->
               result[i].passes
               <=> call.response.status = OptGet(call.config, <<"statusCode">>)
          [] result[i].kind = "duration" ->
               result[i].passes
               <=> call.response.duration.n
                     < OptGet(call.config, <<"maxDuration">>).n

\* C14's case: an HTML body with status 200: the status and duration
\* checks pass, the three checks of the body fail
C14_Witness ==
  /\ call.op = "checks"
  /\ call.response = Response(200, Str(<<"<html>">>), 50)
  /\ Len(result) = 5
  /\ {i \in 1..5 : result[i].passes}
       = {i \in 1..5 : result[i].kind \in {"status", "duration"}}
  /\ \E i \in 1..5 : result[i].kind = "success"

\* the value at the end of the path when every value on the way is an
\* object that has the next segment, and undefined otherwise
RECURSIVE ObjectsOnly(_, _)
ObjectsOnly(v, keys) ==
  IF keys = <<>> THEN v
  ELSE IF v.t = "object" /\ Head(keys) \in DOMAIN v.f
  THEN ObjectsOnly(v.f[Head(keys)], Tail(keys))
  ELSE Undef

\* the same, except that a string on the way has a length
RECURSIVE ObjectsAndStrings(_, _)
ObjectsAndStrings(v, keys) ==
  IF keys = <<>> THEN v
  ELSE IF v.t = "object" /\ Head(keys) \in DOMAIN v.f
  THEN ObjectsAndStrings(v.f[Head(keys)], Tail(keys))
  ELSE IF v.t = "string" /\ Head(keys) = <<"length">>
  THEN ObjectsAndStrings(Num(StringLength(v.s)), Tail(keys))
  ELSE Undef

\* C15, as the spec states it: dot-path resolution yields undefined
\* whenever a value on the way is absent, undefined, null or not an object
\* (a string, a number), and the value at the end of the path otherwise.
C15_ResolveShortCircuitsOnNonObjects ==
  call.op = "getNestedField"
  => result = ObjectsOnly(call.obj, SplitDots(call.path, <<>>))

\* C15, amended: resolution yields undefined when a value on the way is
\* undefined or null or lacks the segment; a string on the way is read
\* like an object, so that its length is found.
C15_ResolveReadsPrimitives ==
  call.op = "getNestedField"
  => result = ObjectsAndStrings(call.obj, SplitDots(call.path, <<>>))

\* C15's case: the length of a string at the end of the path
C15_Witness ==
  /\ call.op = "getNestedField"
  /\ call.path = <<"data", ".", "token", ".", "length">>
  /\ OptGet(OptGet(call.obj, <<"data">>), <<"token">>) = S("abc")
  /\ result = Num(3)

(***************************************************************************)
(* Properties of run().                                                    *)
(***************************************************************************)
\* the steps of run() up to the validation, in the order of the spec
StepsToValidation ==
  <<"selectData", "prepareRequest", "buildHeaders", "buildUrl", "makeRequest",
    "validateResponse">>

IsPrefix(s, t) == Len(s) <= Len(t) /\ s = SubSeq(t, 1, Len(s))

\* an iteration of run() has returned
RunCompleted == iter > 0 /\ pc = "ready"

\* C16: a completed run() has called selectData, prepareRequest,
\* buildHeaders, buildUrl, makeRequest and validateResponse once each in
\* this order, then handleError only if the validation failed, then the
\* pause; a run on its way has called a prefix of these, so that no request
\* is sent before the payload is prepared and no pause precedes validation.
C16_RunCallsHooksInOrder ==
  /\ \/ IsPrefix(hookLog, StepsToValidation \o <<"sleep">>)
     \/ IsPrefix(hookLog, StepsToValidation \o <<"handleError", "sleep">>)
  /\ RunCompleted =>
       /\ hookLog \in {StepsToValidation \o <<"sleep">>,
                       StepsToValidation \o <<"handleError", "sleep">>}
       /\ Count(hookLog, "handleError") = 1 => ~Truthy(isValid)
  /\ request # NoRequest =>
       /\ IsPrefix(<<"selectData", "prepareRequest">>, hookLog)
       /\ payload # Undef

\* C16's case: a run that failed its validation has returned
C16_Witness ==
  /\ RunCompleted
  /\ hookLog = StepsToValidation \o <<"handleError", "sleep">>
  /\ isValid = Bool(FALSE)
  /\ httpCount = iter

\* C17: once validateResponse has returned and run() has gone past its
\* test, handleError was called if and only if the result was false, at
\* most once, and no request was sent but the one of makeRequest.
C17_HandleErrorOnlyOnFailure ==
  /\ Count(hookLog, "handleError") <= 1
  /\ httpCount <= iter
  /\ Count(hookLog, "handleError") = 1 =>
       /\ ~Truthy(isValid)
       /\ Count(hookLog, "makeRequest") = 1
  /\ (pc = "checked" \/ RunCompleted) =>
       (Count(hookLog, "handleError") = 1 <=> ~Truthy(isValid))

\* C17's case: two runs in a row failed their validation
C17_Witness ==
  /\ pc = "checked"
  /\ iter = 2
  /\ httpCount = 2
  /\ isValid = Bool(FALSE)
  /\ hookLog = StepsToValidation \o <<"handleError">>

(***************************************************************************)
(* Properties of the hooks called on their own.                            *)
(***************************************************************************)
\* the number of slashes s ends with, and starts with
RECURSIVE TrailingSlashes(_)
TrailingSlashes(s) ==
  IF s # <<>> /\ s[Len(s)] = "/"
  THEN 1 + TrailingSlashes(SubSeq(s, 1, Len(s) - 1)) ELSE 0

RECURSIVE LeadingSlashes(_)
LeadingSlashes(s) ==
  IF s # <<>> /\ Head(s) = "/" THEN 1 + LeadingSlashes(Tail(s)) ELSE 0

\* s without the slashes it ends with, and without those it starts with
Stem(s) == SubSeq(s, 1, Len(s) - TrailingSlashes(s))
Rest(s) == SubSeq(s, LeadingSlashes(s) + 1, Len(s))

\* the base and the path joined by n slashes
Joined(baseUrl, n, path) ==
  Str(Stem(baseUrl.s) \o [i \in 1..n |-> "/"] \o Rest(path.s))

\* C18, as the spec states it: buildUrl joins baseUrl and path with exactly
\* one slash, however many slashes baseUrl ends with and path starts with.
C18_BuildUrlJoinsWithOneSlash ==
  call.op = "buildUrl" => result = Joined(call.baseUrl, 1, call.path)

\* C18, amended: buildUrl removes one trailing slash of baseUrl and adds a
\* leading slash to a path that has none, so that the join has exactly one
\* slash when baseUrl ends with at most one and path starts with at most one,
\* and keeps every further slash otherwise.
C18_BuildUrlNormalizesOneSlash ==
  call.op = "buildUrl" =>
    With(TrailingSlashes(call.baseUrl.s), LAMBDA t :
      With(LeadingSlashes(call.path.s), LAMBDA l :
        /\ result = Joined(call.baseUrl,
                           (IF t > 0 THEN t - 1 ELSE 0)
                           + (IF l > 0 THEN l ELSE 1),
                           call.path)
        /\ (t <= 1 /\ l <= 1) => result = Joined(call.baseUrl, 1, call.path)))

\* C18's case: a trailing and a leading slash give one slash
C18_Witness ==
  /\ call.op = "buildUrl"
  /\ call.baseUrl = Str(<<"https://x.io", "/">>)
  /\ call.path = Str(<<"/", "auth/v2/login">>)
  /\ result = Str(<<"https://x.io", "/", "auth/v2/login">>)

\* the spellings of a verb in upper, lower and mixed case
SpelledAs ==
  ("POST" :> {"POST", "post", "Post"}) @@ ("GET" :> {"GET", "get", "Get"})
  @@ ("PUT" :> {"PUT", "put"}) @@ ("PATCH" :> {"PATCH", "patch"})
  @@ ("DELETE" :> {"DELETE", "delete", "Delete"})

\* the method of the call under way spells the verb
MethodIs(verb) ==
  call.method.t = "string" /\ \E a \in SpelledAs[verb] : call.method.s = <<a>>

\* C19: for GET the default makeRequest sends the payload as the query
\* string of the URL, one key=value per key whose value is neither null nor
\* undefined, and sends no body.
C19_GetSendsPayloadAsQuery ==
  (call.op = "makeRequest" /\ MethodIs("GET")) =>
    /\ ~result.err.raised
    /\ result.req.verb = "GET"
    /\ result.req.body = Undef
    /\ With(QueryParams(call.payload, call.payload.keys), LAMBDA query :
         result.req.url =
           Str(call.url.s
               \o (IF query # <<>> THEN <<"?">> \o query ELSE <<>>)))

\* the call under way names no method
MethodAbsent == ~Truthy(call.method)

\* the request carries the payload as JSON text
SendsJson(req, sent) ==
  /\ req.body = Str(Stringify(sent))
  /\ JsonParse(req.body) = [ok |-> TRUE, v |-> sent]

\* C20: the default makeRequest takes the verb from the method whatever its
\* case, POST when there is none; POST, PUT and PATCH send the payload as a
\* JSON body, DELETE sends no body, and a method that is none of the five
\* raises the unsupported-method error and sends no request.
C20_MethodChoosesVerb ==
  call.op = "makeRequest" =>
    IF MethodAbsent \/ MethodIs("POST")
    THEN /\ ~result.err.raised
         /\ result.req.verb = "POST"
         /\ SendsJson(result.req, call.payload)
    ELSE IF \E verb \in {"PUT", "PATCH"} : MethodIs(verb)
    THEN /\ ~result.err.raised
         /\ MethodIs(result.req.verb)
         /\ SendsJson(result.req, call.payload)
    ELSE IF MethodIs("DELETE")
    THEN /\ ~result.err.raised
         /\ result.req.verb = "DELETE"
         /\ result.req.body = Null
    ELSE IF MethodIs("GET")
    THEN /\ ~result.err.raised
         /\ result.req.verb = "GET"
    ELSE /\ IsUnsupportedMethodError(result.err)
         /\ result.req = NoRequest

\* C20's case: a method in lower case sends a JSON body
C20_Witness ==
  /\ call.op = "makeRequest"
  /\ call.method = S("patch")
  /\ call.payload = MkObj(<< <<(<<"mobile">>), Num(7)>>,
                             <<(<<"otp">>), Null>> >>)
  /\ result.req.verb = "PATCH"
  /\ result.req.body =
       Str(<<"{", Quote, "mobile", Quote, ":", "7", ",",
             Quote, "otp", Quote, ":", "null", "}">>)

(***************************************************************************)
(* Properties of the pause and of getOptions.                              *)
(***************************************************************************)
\* the thinkTime of the selected endpoint, undefined when it names none
ConfiguredThinkTime == OptGet(SelectedEndpoint, <<"thinkTime">>)

\* C21: the pause that ends an iteration lasts the thinkTime of the
\* endpoint whenever one is configured, and 1 second only when the config
\* has none.
C21_PauseLastsThinkTime ==
  RunCompleted =>
    slept = (IF ConfiguredThinkTime # Undef THEN ConfiguredThinkTime
             ELSE Num(1))

\* the entry of the selected endpoint's loadProfiles for the test type
SelectedProfile ==
  OptGet(OptGet(SelectedEndpoint, <<"loadProfiles">>), testType.s)

IsMissingProfileError(e) ==
  e.raised
  /\ StartsWith(e.msg, <<"BaseLoadTest: No load profile found for test type '">>)

\* C22: the stages getOptions returns are those of the load profile of the
\* test type; when loadProfiles has no entry for the test type, createTest
\* still constructs the test and getOptions raises the missing-load-profile
\* error.
C22_StagesAreTheProfile ==
  /\ options # Undef =>
       /\ Truthy(SelectedProfile)
       /\ Get(options, <<"stages">>) = Get(SelectedProfile, <<"stages">>)
  /\ (test # NoTest /\ pc # "created" /\ ~Truthy(SelectedProfile)) =>
       /\ pc = "aborted"
       /\ IsMissingProfileError(err)
       /\ constructed = 1
       /\ options = Undef
  /\ IsMissingProfileError(err) => (test # NoTest /\ ~Truthy(SelectedProfile))

\* C22's case: the config has a smoke profile only and the test type is load
C22_Witness ==
  /\ pc = "aborted"
  /\ constructed = 1
  /\ testType = S("load")
  /\ OptGet(SelectedEndpoint, <<"loadProfiles">>) = SmokeOnly
  /\ IsMissingProfileError(err)

\* the entry of the threshold config of the call under way, undefined when
\* it is not configured
Configured(key) == OptGet(call.thresholds, key)

\* the bound "p(95)<500" of a percentile, or "rate<0" of a rate
Bound(name, value) == Str(name \o ToStr(value))

\* the duration bounds the config asks for, p(95) first
DurationBounds ==
  (IF Configured(<<"p95Duration">>) # Undef
   THEN <<Bound(<<"p(95)<">>, Configured(<<"p95Duration">>))>> ELSE <<>>)
  \o (IF Configured(<<"p99Duration">>) # Undef
      THEN <<Bound(<<"p(99)<">>, Configured(<<"p99Duration">>))>> ELSE <<>>)

Initialized == opened = 1

\* C25: after init() no step of any virtual user changes the dataset or a
\* field of the test: the dataset has the length and the entries load
\* returned, and serviceConfig, endpointConfig, testType and validator are
\* those of the constructor.
C25_WorkersLeaveTestAlone ==
  /\ test.serviceConfig = ServiceOf
  /\ test.endpointConfig = SelectedEndpoint
  /\ test.testType = testType
  /\ test.validator
       = NewRequestValidator(Get(SelectedEndpoint, <<"validation">>))
  /\ Initialized =>
       /\ test.requestData = registry[LoginArrayName.s]
       /\ Len(Dataset) = Len(csv.rows)
       /\ \A i \in 1..Len(csv.rows) : Dataset[i] = Decoded(csv.rows[i])
  /\ ~Initialized => test.requestData = Null

\* C25's case: two virtual users are in the middle of run() with the same
\* entry of a dataset of two
C25_Witness ==
  /\ Initialized
  /\ Len(Dataset) = 2
  /\ vu[1].pc = "responded"
  /\ vu[2].pc = "failed"
  /\ vu[1].payload = Dataset[2]
  /\ vu[2].payload = Dataset[2]

\* C26: selectData returns an entry of the dataset: the index it draws lies
\* in 0 .. length - 1 for every dataset of one entry or more, and a dataset
\* of one entry always yields that entry.
C26_SelectDataStaysInDataset ==
  call.op = "selectData" =>
    /\ ~result.err.raised
    /\ RandomIndex(call.random, Len(call.requestData.a))
         \in 0..(Len(call.requestData.a) - 1)
    /\ \E i \in 1..Len(call.requestData.a) : result.v = call.requestData.a[i]
    /\ Len(call.requestData.a) = 1 => result.v = call.requestData.a[1]

\* C26's case: the largest random number, on a dataset of one entry
C26_Witness ==
  /\ call.op = "selectData"
  /\ call.random = RandomSteps - 1
  /\ Len(call.requestData.a) = 1
  /\ result.v = MkObj(<< <<(<<"mobile">>), Num(1)>> >>)

\* C27: run() on a test whose init() has not returned raises in selectData
\* and sends no request; a virtual user that has sent a request runs a test
\* that init() gave its data.
C27_NoRequestWithoutInit ==
  \A w \in Workers :
     /\ ~Initialized =>
          /\ vu[w].pc \in {"idle", "raised"}
          /\ vu[w].request = NoRequest
          /\ vu[w].pc = "raised" => vu[w].err = Error(TypeErrorMsg)
     /\ vu[w].request # NoRequest =>
          /\ Initialized
          /\ test.requestData.t = "array"

\* C27's case: init() was left out and both virtual users have called run()
C27_Witness ==
  /\ test.requestData = Null
  /\ \A w \in Workers : vu[w].pc = "raised" /\ vu[w].err.raised

(***************************************************************************)
(* Properties of createTest's order of checks.                             *)
(***************************************************************************)
\* what config.endpoints[endpointName] reads, a name the object inherits
\* included
LookedUp == OptGet(EndpointsOf, ToStr(endpointName))

EndpointField(field) ==
  <<"TestFactory: ", "endpoints", ".">> \o ToStr(endpointName)
  \o <<".", field, " is required">>

\* the checks of createTest in the order of the claim: whether the config
\* fails the check, and the message that reports it (for the lookup, its
\* beginning)
PrecedenceOfChecks ==
  << [fails |-> ~Truthy(config),
      msg |-> <<"TestFactory: Configuration is required">>],
     [fails |-> ~Truthy(ServiceOf),
      msg |-> <<"TestFactory: ", "config", ".", "service", " is required">>],
     [fails |-> ~Truthy(OptGet(ServiceOf, <<"name">>)),
      msg |-> <<"TestFactory: ", "config", ".", "service", ".", "name",
                " is required">>],
     [fails |-> ~Truthy(OptGet(ServiceOf, <<"baseUrl">>)),
      msg |-> <<"TestFactory: ", "config", ".", "service", ".", "baseUrl",
                " is required">>],
     [fails |-> ~Truthy(EndpointsOf),
      msg |-> <<"TestFactory: ", "config", ".", "endpoints", " is required">>],
     [fails |-> EndpointsOf.t # "object",
      msg |-> <<"TestFactory: ", "config", ".", "endpoints",
                " must be an object">>],
     [fails |-> EndpointsOf.t = "object" /\ EndpointsOf.keys = <<>>,
      msg |-> <<"TestFactory: ", "config", ".", "endpoints",
                " cannot be empty">>],
     [fails |-> testType \notin {S("smoke"), S("load")},
      msg |-> <<"TestFactory: Invalid test type '">> \o ToStr(testType)
              \o <<"'. Must be 'smoke' or 'load'.">>],
     [fails |-> ~Truthy(LookedUp),
      msg |-> <<"TestFactory: Endpoint '">> \o ToStr(endpointName)
              \o <<"' not found in configuration. ">>],
     [fails |-> ~Truthy(OptGet(LookedUp, <<"path">>)),
      msg |-> EndpointField("path")],
     [fails |-> ~Truthy(OptGet(LookedUp, <<"dataSource">>)),
      msg |-> EndpointField("dataSource")],
     [fails |-> ~Truthy(OptGet(LookedUp, <<"validation">>)),
      msg |-> EndpointField("validation")],
     [fails |-> ~Truthy(OptGet(LookedUp, <<"loadProfiles">>)),
      msg |-> EndpointField("loadProfiles")] >>

\* the checks that fail
FailedChecks ==
  {i \in 1..Len(PrecedenceOfChecks) : PrecedenceOfChecks[i].fails}

\* the first of them
FirstFailedCheck == CHOOSE i \in FailedChecks : \A j \in FailedChecks : i <= j

\* C28: createTest reports one error, that of the first check that fails in
\* the order config, service, service.name, service.baseUrl, endpoints
\* (missing, not an object, empty), testType, endpoint lookup, path,
\* dataSource, validation, loadProfiles; it constructs a test only when no
\* check fails.
C28_FirstFailedCheckIsReported ==
  pc \in {"created", "aborted"} =>
    IF FailedChecks = {}
    THEN test # NoTest /\ constructed = 1
    ELSE /\ pc = "aborted"
         /\ test = NoTest
         /\ constructed = 0
         /\ err.raised
         /\ StartsWith(err.msg, PrecedenceOfChecks[FirstFailedCheck].msg)
         /\ \A i \in FailedChecks \ {FirstFailedCheck} :
              ~StartsWith(err.msg, PrecedenceOfChecks[i].msg)

\* C28's case: the test type is invalid and the endpoint is not defined,
\* and the error is that of the test type
C28_Witness ==
  /\ pc = "aborted"
  /\ testType = S("stress")
  /\ endpointName = S("refresh")
  /\ FailedChecks = {8, 9, 10, 11, 12, 13}
  /\ StartsWith(err.msg, <<"TestFactory: Invalid test type '">>)

(***************************************************************************)
(* Properties of two tests in one process.                                 *)
(***************************************************************************)
\* the service name and the endpoint path of a test, joined as init() does
NameAndPath(t) ==
  Str(ToStr(OptGet(t.serviceConfig, <<"name">>)) \o <<"-">>
      \o ToStr(OptGet(t.endpointConfig, <<"path">>)) \o <<"-data">>)

\* C29: init() registers the dataset under a key made of the service name
\* and the endpoint path only: a second test of the same service and path
\* is handed the dataset of the first, whatever its own data source, column
\* and filter, and its file is not opened; a second test with another path
\* reads its own file.
C29_KeyIsNameAndPath ==
  call.op = "initTwice" =>
    /\ ~result.first.err.raised
    /\ DOMAIN result.first.registry = {NameAndPath(call.first).s}
    /\ IF NameAndPath(call.second) = NameAndPath(call.first)
       THEN /\ ~result.second.err.raised
            /\ ~result.second.opened
            /\ result.second.test.requestData = result.first.test.requestData
            /\ result.second.registry = result.first.registry
       ELSE /\ result.second.opened
            /\ ~result.second.err.raised =>
                 NameAndPath(call.second).s \in DOMAIN result.second.registry

\* C29's case: the second test names another file, column and filter, its
\* file cannot even be read, and it holds the two entries of the first
C29_Witness ==
  /\ call.op = "initTwice"
  /\ call.file2 = NoFile
  /\ OptGet(OptGet(call.second.endpointConfig, <<"dataSource">>), <<"path">>)
       = S("payments.csv")
  /\ OptGet(OptGet(call.second.endpointConfig, <<"dataSource">>),
            <<"requestColumn">>) = S("payload")
  /\ OptGet(call.second.endpointConfig, <<"method">>) = S("GET")
  /\ ~result.second.err.raised
  /\ result.second.test.requestData = result.first.test.requestData
  /\ Len(result.second.test.requestData.a) = 2

(***************************************************************************)
(* Properties of the check of a required field.                            *)
(***************************************************************************)
\* C30: the check of a required field fails when the body gives the field
\* the value null, as it does when the body leaves the field out, and it
\* passes for every other value, false, 0 and the empty string included.
C30_NullFieldCountsAsAbsent ==
  call.op = "fieldCheck" =>
    /\ Len(result) = 1
    /\ result[1].kind = "field"
    /\ result[1].passes <=> call.value \notin {Undef, Null}

\* C30's case: the body holds "accessToken":null under data, and the check
\* fails
C30_Witness ==
  /\ call.op = "fieldCheck"
  /\ call.value = Null
  /\ call.body = Str(<<"{", Quote, "data", Quote, ":", "{", Quote,
                       "accessToken", Quote, ":", "null", "}", "}">>)
  /\ ~result[1].passes

=============================================================================
